---- MODULE Spec2Model ----
(***************************************************************************)
(* Model of the Jarvis voice service (src/python/voice_service.py).        *)
(*                                                                         *)
(* Two threads share the VoiceService object: the main audio/turn loop     *)
(* (process_audio_loop) and the command listener (listen_for_commands).    *)
(* Each thread is modelled by a program counter; one action is one         *)
(* statement (or one run of statements that touch no shared field), so     *)
(* that the interleavings the interpreter allows are interleavings of the  *)
(* model.  Times are integers in milliseconds.  A text is a sequence of    *)
(* tokens (words, whitespace " " and the two markers); an audio frame is   *)
(* represented by its classification by the energy gate.                   *)
(***************************************************************************)
EXTENDS Integers, Sequences, FiniteSets, TLC

(***************************************************************************)
(* Program constants                                                       *)
(***************************************************************************)
SILENCE_DURATION == 1000
MIN_SPEECH_DURATION == 500
CHUNK_SIZE == 1024
sample_rate == 16000
max_turns == 8
context_timeout == 120000
\* SILENCE_TIMEOUT when the environment does not set it (line 670)
DefaultSilenceTimeout == 1000

\* int(MIN_SPEECH_DURATION * self.sample_rate / CHUNK_SIZE), durations in ms
MinSpeechFrames == (MIN_SPEECH_DURATION * sample_rate) \div (1000 * CHUNK_SIZE)

(***************************************************************************)
(* Bounds of the model                                                     *)
(***************************************************************************)
MaxFrames == 9
MaxNow == 2000
MaxNowCtx == 120001
MaxNowScript == 3000
MaxScriptFrames == 48
MaxAdded == 10

\* value of a timestamp that is None
None == -1

(***************************************************************************)
(* Clock advances between two readings of time.time(), per specification   *)
(***************************************************************************)
SegDeltas == {0, 500, 1000}
CtxDeltas == {0, 120000, 120001}
ConcDeltas == {0, 120001}

VARIABLES
    now,                 \* last value returned by time.time()
    pc,                  \* position of the main loop
    recording,           \* process_audio_loop local
    frames,              \* process_audio_loop local: classifications of the accumulated chunks
    silence_start,       \* process_audio_loop local (None = -1)
    speech_detected,     \* process_audio_loop local
    transcription,       \* process_audio_loop local
    response,            \* process_audio_loop local
    llm,                 \* outcome of the last requests.post of generate_fast_response
    parsed,              \* generate_fast_response locals answer_text, instruction_text (line 229)
    silence_timeout,     \* self.silence_timeout (line 67)
    messages,            \* generate_fast_response local: the list sent to the endpoint (lines 194-196)
    audio_chunk,         \* process_audio_loop local: the samples of the last chunk read (line 426)
    is_muted,            \* self.is_muted
    should_stop,         \* self.should_stop
    current_voice,       \* self.current_voice
    conversation_turns,  \* self.conversation_turns
    last_activity_time,  \* self.last_activity_time
    cpc,                 \* position of the command listener thread
    cmd,                 \* command being handled by the listener
    announcement,        \* handle_command local: text of the announce being handled
    command,             \* handle_command argument: text and lists of the last announce read
    emitted,             \* events written to stdout by the last step
    calls,               \* collaborator invocations made by the last step
    added,               \* history: records appended since the most recent clear
    fired,               \* history: the silence timeout fired and the accumulator was not reset since
    mutedInTurn,         \* history: a muted iteration was passed with chunks in the accumulator
    firstSilAt,          \* history: clock reading at the first silence chunk after the last speech chunk
    resetRun,            \* history: completion times of the current run of consecutive reset_context commands
    mutedReads,          \* history: chunks read since the mute flag was last set, while it stays set
    spc,                 \* streaming variant: position of test_parallel within one turn
    sentence_buffer,     \* streaming variant: test_parallel local (line 191)
    full_response,       \* streaming variant: generate_response_streaming local (line 77)
    received,            \* streaming variant: number of chunks the endpoint has streamed
    playing,             \* streaming variant: the utterance the audio device is playing
    played               \* streaming variant, history: the utterances the device has finished

vars == <<silence_timeout, now, pc, recording, frames, silence_start, speech_detected,
          transcription, response, llm, parsed, messages, audio_chunk,
          is_muted, should_stop, current_voice,
          conversation_turns, last_activity_time, cpc, cmd, announcement, command,
          emitted, calls,
          added, fired, firstSilAt, mutedInTurn, resetRun, mutedReads,
          spc, sentence_buffer, full_response, received, playing, played>>

segVars  == <<recording, frames, silence_start, speech_detected, firstSilAt, fired,
              mutedInTurn>>
ctxVars  == <<conversation_turns, last_activity_time, added>>
turnVars == <<transcription, response, llm, parsed, messages, audio_chunk>>
cmdVars  == <<cpc, cmd, announcement, command, resetRun>>
flagVars == <<is_muted, should_stop, current_voice, mutedReads>>
streamVars == <<spc, sentence_buffer, full_response, received, playing, played>>

(***************************************************************************)
(* Texts                                                                   *)
(***************************************************************************)
Ev(t, d) == [type |-> t, data |-> d]

Rec(role, content) == [role |-> role, content |-> content]

\* str.lower() on a token
Lower(tok) ==
    CASE tok = "Hello"     -> "hello"
      [] tok = "Goodbye"   -> "goodbye"
      [] tok = "EXIT"      -> "exit"
      [] tok = "Please"    -> "please"
      [] tok = "[ANSWER]"  -> "[answer]"
      [] tok = "[INSTRUCTION]" -> "[instruction]"
      [] tok = "[Instruction]" -> "[instruction]"
      [] OTHER             -> tok

\* the keywords that occur in a lower-case token as substrings
SubWords(tok) ==
    CASE tok = "this"   -> {"this", "hi"}
      [] tok = "exited" -> {"exited", "exit"}
      [] OTHER          -> {tok}

\* any(word in text.lower() for word in words): substring search
ContainsAny(text, words) ==
    \E i \in 1..Len(text) : SubWords(Lower(text[i])) \cap words # {}

IsSpace(tok) == tok = " "

\* index of the first non-whitespace token at or after i (Len+1 if none)
RECURSIVE SkipSpace(_, _)
SkipSpace(text, i) ==
    IF i > Len(text) THEN i
    ELSE IF IsSpace(text[i]) THEN SkipSpace(text, i + 1) ELSE i

\* index of the last non-whitespace token at or before j (0 if none)
RECURSIVE SkipSpaceBack(_, _)
SkipSpaceBack(text, j) ==
    IF j < 1 THEN 0
    ELSE IF IsSpace(text[j]) THEN SkipSpaceBack(text, j - 1) ELSE j

\* str.strip()
Strip(text) ==
    LET i == SkipSpace(text, 1)
        j == SkipSpaceBack(text, Len(text))
    IN  IF i > j THEN << >> ELSE SubSeq(text, i, j)

(***************************************************************************)
(* _parse_dual_output (lines 250-269)                                      *)
(***************************************************************************)
IsAnswerMarker(tok) == Lower(tok) = "[answer]"

IsInstructionMarker(tok) == Lower(tok) = "[instruction]"

\* index of the first [ANSWER] marker at or after i, 0 if there is none
RECURSIVE FirstAnswer(_, _)
FirstAnswer(text, i) ==
    IF i > Len(text) THEN 0
    ELSE IF IsAnswerMarker(text[i]) THEN i ELSE FirstAnswer(text, i + 1)

\* index of the first [INSTRUCTION] marker at or after i, 0 if there is none
RECURSIVE FirstInstruction(_, _)
FirstInstruction(text, i) ==
    IF i > Len(text) THEN 0
    ELSE IF IsInstructionMarker(text[i]) THEN i ELSE FirstInstruction(text, i + 1)

\* mutant: the answer runs to the end of the text
AnswerSection_ToEnd(content) ==
    LET a == FirstAnswer(content, 1)
    IN  IF a = 0 THEN << >> ELSE Strip(SubSeq(content, a + 1, Len(content)))

\* re.search(r'\[ANSWER\]\s*(.*?)(?=\[INSTRUCTION\]|$)', content).group(1).strip()
AnswerSection(content) ==
    LET a == FirstAnswer(content, 1)
        e == IF a = 0 THEN 0 ELSE FirstInstruction(content, a + 1)
    IN  IF a = 0 THEN << >>
        ELSE IF e = 0 THEN Strip(SubSeq(content, a + 1, Len(content)))
        ELSE Strip(SubSeq(content, a + 1, e - 1))

\* re.search(r'\[INSTRUCTION\]\s*(.*?)$', content).group(1).strip()
InstructionSection(content) ==
    LET i == FirstInstruction(content, 1)
    IN  IF i = 0 THEN << >> ELSE Strip(SubSeq(content, i + 1, Len(content)))

\* mutant: no whole-text fallback
_parse_dual_output_NoFallback(content) ==
    [answer |-> AnswerSection(content), instruction |-> InstructionSection(content)]

_parse_dual_output(content) ==
    LET answer_text == AnswerSection(content)
        instruction_text == InstructionSection(content)
    IN  IF answer_text = << >> /\ instruction_text = << >>
        THEN [answer |-> Strip(content), instruction |-> instruction_text]
        ELSE [answer |-> answer_text, instruction |-> instruction_text]

(***************************************************************************)
(* _fallback_response (lines 271-288)                                      *)
(***************************************************************************)
FallbackDefault == <<"I'm listening.">>

\* mutant: the question mark is looked for first
_fallback_response_QuestionFirst(user_input) ==
    IF \E i \in 1..Len(user_input) : user_input[i] = "?"
         THEN <<"Let me think about that.">>
    ELSE IF ContainsAny(user_input, {"hello", "hi", "hey"}) THEN <<"Hello!">>
    ELSE IF ContainsAny(user_input, {"let's", "please", "can you", "could you"})
         THEN <<"I'll work on that.">>
    ELSE FallbackDefault

_fallback_response(user_input) ==
    IF ContainsAny(user_input, {"hello", "hi", "hey"}) THEN <<"Hello!">>
    ELSE IF ContainsAny(user_input, {"let's", "please", "can you", "could you"})
         THEN <<"I'll work on that.">>
    ELSE IF \E i \in 1..Len(user_input) : user_input[i] = "?"
         THEN <<"Let me think about that.">>
    ELSE FallbackDefault

(***************************************************************************)
(* generate_fast_response (lines 189-248).  o is the outcome of the POST:  *)
(* kind "timeout", "connerr", "exception" (any other exception raised in   *)
(* the try block) or "http" with a status and the content of the reply.    *)
(***************************************************************************)
\* mutant: an empty answer is returned as it is
AnswerOrFallback_NoFallback(answer_text, user_input) == answer_text

\* return answer_text if answer_text else self._fallback_response(user_input) (line 235)
AnswerOrFallback(answer_text, user_input) ==
    IF answer_text # << >> THEN answer_text ELSE _fallback_response(user_input)

\* answer_text, instruction_text before line 229 is reached
NoParse == [answer |-> << >>, instruction |-> << >>]

\* answer_text, instruction_text after the call with outcome o (line 229)
\* number of context records sent along (line 195)
ContextWindow == 8

\* conversation_turns[-8:] (line 195)
LastTurns(h) ==
    SubSeq(h, IF Len(h) > ContextWindow THEN Len(h) - ContextWindow + 1 ELSE 1, Len(h))

\* lines 194-196
BuildMessages(h, user_input) ==
    <<Rec("system", <<"system_prompt">>)>> \o LastTurns(h)
        \o <<Rec("user", user_input)>>

ParsedBy(o) ==
    IF o.kind = "http" /\ o.status = 200 /\ Strip(o.content) # << >>
    THEN _parse_dual_output(Strip(o.content))
    ELSE NoParse

generate_fast_response(user_input, o) ==
    IF o.kind = "http" /\ o.status = 200
    THEN LET content == Strip(o.content)
         IN  IF content = << >> THEN _fallback_response(user_input)
             ELSE AnswerOrFallback(_parse_dual_output(content).answer, user_input)
    ELSE _fallback_response(user_input)

\* mutant: the event is sent whether or not there is an instruction
InstructionEvents_Always(instruction_text) ==
    <<Ev("instruction_detected", instruction_text)>>

\* if instruction_text: send_message("instruction_detected", ...) (lines 232-233)
InstructionEvents(instruction_text) ==
    IF instruction_text # << >>
    THEN <<Ev("instruction_detected", instruction_text)>>
    ELSE << >>

\* events sent by generate_fast_response
GenerateEvents(user_input, o) ==
    <<Ev("debug", << >>), Ev("debug", << >>)>> \o
    (IF o.kind = "http"
     THEN <<Ev("debug", << >>)>> \o
          (IF o.status = 200
           THEN <<Ev("debug", << >>)>> \o
                (LET content == Strip(o.content)
                     instruction_text == _parse_dual_output(content).instruction
                 IN  IF content # << >> THEN InstructionEvents(instruction_text)
                     ELSE << >>)
           ELSE <<Ev("debug", << >>)>>)
     ELSE <<Ev("error", << >>)>>)

(***************************************************************************)
(* _format_for_tts (lines 290-335) on token sequences.  A word is one      *)
(* token, and so is each separator the announce command inserts.           *)
(***************************************************************************)
\* the replacements of lines 296-319 (re.IGNORECASE) for the abbreviations of the model
ExpandAbbreviation(tok) ==
    CASE tok = "etc."  -> "et cetera"
      [] tok = "Etc."  -> "et cetera"
      [] tok = "e.g."  -> "for example"
      [] tok = "Dr."   -> "Doctor"
      [] OTHER         -> tok

\* re.sub(r'(\w)\.(\w)', r'\1 \2') inside a word (line 325): matches do not overlap
SplitInnerDots(tok) ==
    CASE tok = "v1.2"  -> "v1 2"
      [] tok = "U.S.A" -> "U S.A"
      [] OTHER         -> tok

\* the last character of the token is a word character (\w)
EndsWithWordChar(tok) ==
    tok \notin {". ", ", ", ", and ", " Also, ", ". However, ", ". Note: ", ". There are ",
                " ", "Done!", "why?", "how?", "what?", "Who?"}

\* the first character of the token is in [a-z]
StartsLower(tok) ==
    tok \in {"a", "b", "c", "d", "e", "f", "g", "h",
             "na", "nb", "nc", "nd", "ne", "nf", "ng", "nh",
             "ra", "rb", "rc", "rd", "re", "rf", "rg", "rh",
             "done", "et cetera", "for example", "v1 2", "why?", "how?", "what?"}

\* words of a single character: a match that takes the word as its [a-z]
\* leaves no word character for a match at the period after it
OneChar(tok) == tok \in {"a", "b", "c", "d", "e", "f", "g", "h"}

\* re.sub(r'(\w)\.\s+([a-z])', r'\1 \2') (line 326), from token i on;
\* blocked: the word before token i was consumed whole by the previous match
RECURSIVE DropPeriods(_, _, _)
DropPeriods(text, i, blocked) ==
    IF i > Len(text) THEN << >>
    ELSE IF /\ text[i] = ". " /\ i > 1 /\ i < Len(text) /\ ~blocked
            /\ EndsWithWordChar(text[i - 1]) /\ StartsLower(text[i + 1])
         THEN <<" ", text[i + 1]>> \o DropPeriods(text, i + 2, OneChar(text[i + 1]))
         ELSE <<text[i]>> \o DropPeriods(text, i + 1, FALSE)

_format_for_tts(text) ==
    LET replaced == [i \in 1..Len(text) |-> ExpandAbbreviation(text[i])]
        split    == [i \in 1..Len(text) |-> SplitInnerDots(replaced[i])]
    IN  \* lines 332-334: no token of the model holds a run of spaces
        Strip(DropPeriods(split, 1, FALSE))

(***************************************************************************)
(* handle_command, announce: the announcement text (lines 517-602)         *)
(***************************************************************************)
NoCommand == [text |-> << >>, changes |-> << >>, notes |-> << >>,
              risks |-> << >>, next_questions |-> << >>]

\* lists of at most this many items are read in full (lines 531, 555, 579)
ChangesLimit == 3

NotesLimit == 4

RisksLimit == 2

\* number of items read of a longer list (lines 544, 568; remaining at 551, 575)
FirstFew == 3

\* mutant: no "and" before the last item
SeparatorBefore_NoAnd(i, n) == IF i = 1 THEN << >> ELSE <<", ">>

\* what is added before item i of n when the list is read in full
\* (lines 534-540, 558-564, 582-588)
SeparatorBefore(i, n) ==
    IF i = 1 THEN << >> ELSE IF i = n THEN <<", and ">> ELSE <<", ">>

\* for i, item in enumerate(items), from item i on
RECURSIVE ReadAll(_, _)
ReadAll(items, i) ==
    IF i > Len(items) THEN << >>
    ELSE SeparatorBefore(i, Len(items)) \o <<items[i]>> \o ReadAll(items, i + 1)

\* for i in range(3) (lines 544-550, 568-574), from item i on
RECURSIVE ReadFirst(_, _)
ReadFirst(items, i) ==
    IF i > FirstFew THEN << >>
    ELSE SeparatorBefore(i, FirstFew) \o <<items[i]>> \o ReadFirst(items, i + 1)

\* mutant: the remainder is counted from the limit of the list
Remaining_FromLimit(items) == Len(items) - NotesLimit

\* remaining = len(items) - 3 (lines 551, 575)
Remaining(items) == Len(items) - FirstFew

\* mutant: the changes after the second are only counted
ChangesPart_TwoRead(changes) ==
    IF changes = << >> THEN << >>
    ELSE IF Len(changes) <= ChangesLimit THEN <<". ">> \o ReadAll(changes, 1)
    ELSE <<". ", changes[1], ", ", changes[2], ", and ",
           ToString(Len(changes) - 2), " more change", "s">>

\* lines 530-552
ChangesPart(changes) ==
    IF changes = << >> THEN << >>
    ELSE IF Len(changes) <= ChangesLimit THEN <<". ">> \o ReadAll(changes, 1)
    ELSE <<". ">> \o ReadFirst(changes, 1)
         \o <<", and ", ToString(Remaining(changes)), " more change">>
         \o (IF Remaining(changes) > 1 THEN <<"s">> ELSE << >>)

\* lines 554-576
NotesPart(notes) ==
    IF notes = << >> THEN << >>
    ELSE IF Len(notes) <= NotesLimit THEN <<". ">> \o ReadAll(notes, 1)
    ELSE <<". ">> \o ReadFirst(notes, 1)
         \o <<". There are ", ToString(Remaining(notes)),
              " more important things that need further investigation">>

\* lines 578-593
RisksPart(risks) ==
    IF risks = << >> THEN << >>
    ELSE IF Len(risks) <= RisksLimit THEN <<". However, ">> \o ReadAll(risks, 1)
    ELSE <<". Note: ", ToString(Len(risks)), " potential risks to be aware of">>

\* lines 599-602, from question i on
RECURSIVE ReadQuestions(_, _)
ReadQuestions(questions, i) ==
    IF i > Len(questions) THEN << >>
    ELSE (IF i = 1 THEN << >> ELSE <<" Also, ">>) \o <<questions[i]>>
         \o ReadQuestions(questions, i + 1)

\* lines 596-602
QuestionsPart(questions) ==
    IF questions = << >> THEN << >> ELSE <<". ">> \o ReadQuestions(questions, 1)

\* announcement before line 605
BuildAnnouncement(c) ==
    c.text \o ChangesPart(c.changes) \o NotesPart(c.notes) \o RisksPart(c.risks)
           \o QuestionsPart(c.next_questions)

(***************************************************************************)
(* add_conversation_turn (lines 173-180), check_context_timeout (182-187)  *)
(***************************************************************************)
\* len(self.conversation_turns) > self.max_turns
NeedsEvict(h) == Len(h) > max_turns

\* mutant: pop() removes the newest record instead of the oldest
Evict_Newest(h) == SubSeq(h, 1, Len(h) - 1)

\* self.conversation_turns.pop(0) on a non-empty list
Evict(h) == Tail(h)

\* mutant: the context expires at the deadline instead of after it
ContextExpired_AtDeadline(h, t, last) == h # << >> /\ (t - last) >= context_timeout

\* self.conversation_turns and (time.time() - self.last_activity_time) > self.context_timeout
ContextExpired(h, t, last) == h # << >> /\ (t - last) > context_timeout

(***************************************************************************)
(* Turn segmentation (process_audio_loop, lines 430-448, 485-488)          *)
(***************************************************************************)
\* mutant: the timeout fires on the first silence chunk
SilenceElapsed_Immediately(t, start) == t - start >= 0

\* time.time() - silence_start >= SILENCE_DURATION
SilenceElapsed(t, start) == t - start >= SILENCE_DURATION

\* mutant: >= instead of >
LongEnough_Inclusive(n) == n >= MinSpeechFrames

\* mutant: the minimum-duration test is dropped
LongEnough_Always(n) == n > 0

\* len(frames) > int(MIN_SPEECH_DURATION * self.sample_rate / CHUNK_SIZE)
LongEnough(n) == n > MinSpeechFrames

\* mutant: the silence timer is not cancelled when speech resumes
SilenceStartAfterSpeech_Kept(start) == start

\* silence_start after a chunk classified speech (line 437)
SilenceStartAfterSpeech(start) == None

\* mutant: only goodbye ends the conversation
IsExit_GoodbyeOnly(text) == ContainsAny(text, {"goodbye"})

\* "goodbye" in transcription.lower() or "exit" in transcription.lower()
IsExit(text) == ContainsAny(text, {"goodbye", "exit"})

\* mutant: the reset forgets to empty the frame accumulator
ResetAccumulator_KeepsFrames ==
    /\ recording' = FALSE
    /\ frames' = frames
    /\ silence_start' = None
    /\ speech_detected' = FALSE
    /\ fired' = FALSE
    /\ firstSilAt' = None
    /\ mutedInTurn' = FALSE

\* lines 485-488
ResetAccumulator ==
    /\ recording' = FALSE
    /\ frames' = << >>
    /\ silence_start' = None
    /\ speech_detected' = FALSE
    /\ fired' = FALSE
    /\ firstSilAt' = None
    /\ mutedInTurn' = FALSE

\* mutant: an exception leaves the loop
AfterException_Exit == "cleanup"

\* position after the handler at lines 490-491: the next iteration
AfterException == "while"

\* mutant: a TTS failure is not caught in speak_text and reaches the handler of the loop
SpeakFailureEvents_Uncaught == <<Ev("error", << >>)>>

\* events after kokoro_tts.create or playback raised in speak_text (lines 344-345, 483)
SpeakFailureEvents == <<Ev("error", << >>), Ev("listening", << >>)>>

\* mutant: the mute flag is not consulted
AfterTimeoutCheck_NoMute == "read"

\* if self.is_muted: sleep, continue (lines 420-422)
AfterTimeoutCheck == IF is_muted THEN "while" ELSE "read"

\* the iteration is skipped at lines 420-422 while chunks wait in frames
MutedWithChunks == mutedInTurn \/ (AfterTimeoutCheck = "while" /\ frames # << >>)

\* the constructor, called by main with the configured silence timeout
VoiceService(timeout) ==
    /\ silence_timeout = timeout
    /\ now = 0
    /\ pc = "start"
    /\ recording = FALSE
    /\ frames = << >>
    /\ silence_start = None
    /\ speech_detected = FALSE
    /\ transcription = << >>
    /\ response = << >>
    /\ llm = [kind |-> "none", status |-> 0, content |-> << >>]
    /\ parsed = NoParse
    /\ messages = << >>
    /\ audio_chunk = << >>
    /\ is_muted = FALSE
    /\ should_stop = FALSE
    /\ current_voice = "af_bella"
    /\ conversation_turns = << >>
    /\ last_activity_time = 0
    /\ cpc = "unstarted"
    /\ cmd = "none"
    /\ announcement = << >>
    /\ command = NoCommand
    /\ emitted = << >>
    /\ calls = << >>
    /\ added = << >>
    /\ fired = FALSE
    /\ firstSilAt = None
    /\ mutedInTurn = FALSE
    /\ resetRun = << >>
    /\ mutedReads = 0

\* the streaming variant is a program of its own: it is not running
NoStream ==
    /\ spc = "off"
    /\ sentence_buffer = << >>
    /\ full_response = << >>
    /\ received = 0
    /\ playing = << >>
    /\ played = << >>

\* the service as main() builds it when SILENCE_TIMEOUT is not set
Init == VoiceService(DefaultSilenceTimeout) /\ NoStream

(***************************************************************************)
(* Main thread: start() and process_audio_loop()                           *)
(***************************************************************************)
\* events of a failed start: WhisperModel, Kokoro, the pre-warming or PyAudio()
\* raises after one, two or three status events (lines 350-376), or
\* pyaudio_instance.open raises after initialized (lines 385-397)
StartFailureEvents ==
    { [i \in 1..(k + 1) |-> IF i <= k THEN Ev("status", << >>) ELSE Ev("error", << >>)]
        : k \in 1..3 }
    \cup { <<Ev("status", << >>), Ev("status", << >>), Ev("status", << >>),
             Ev("initialized", << >>), Ev("error", << >>)>> }

\* mutant: the exception of the start is swallowed and the service goes on
AfterStartFailure_GoOn == "ready"

\* the exception re-raised at line 377 or 397 leaves the try of start(): finally (line 647)
AfterStartFailure == "cleanup"

\* start(), lines 633-639: initialize_components, start_audio_stream, thread start
MStart(ok) ==
    /\ pc = "start"
    /\ calls' = <<"init">>
    /\ IF ok
       THEN /\ emitted' = <<Ev("status", << >>), Ev("status", << >>), Ev("status", << >>),
                            Ev("initialized", << >>), Ev("audio_stream_started", << >>)>>
            /\ cpc' = "cwhile"
            /\ pc' = "ready"
       ELSE /\ emitted' \in StartFailureEvents
            /\ cpc' = cpc
            /\ pc' = AfterStartFailure
    /\ UNCHANGED <<now, segVars, turnVars, flagVars, ctxVars, cmd, announcement, command, resetRun>>
    /\ UNCHANGED <<silence_timeout, streamVars>>

\* line 642 and lines 412-413
MReady ==
    /\ pc = "ready"
    /\ emitted' = <<Ev("ready", << >>), Ev("ready", << >>), Ev("listening", << >>)>>
    /\ calls' = << >>
    /\ pc' = "while"
    /\ UNCHANGED <<now, segVars, turnVars, flagVars, ctxVars, cmdVars>>
    /\ UNCHANGED <<silence_timeout, streamVars>>

\* mutant: the loop does not look at the stop flag
LoopContinues_Always(stop) == TRUE

\* while not self.should_stop (line 415)
LoopContinues(stop) == ~stop

\* line 415
MWhile ==
    /\ pc = "while"
    /\ pc' = IF LoopContinues(should_stop) THEN "cto_if" ELSE "cleanup"
    /\ emitted' = << >>
    /\ calls' = << >>
    /\ UNCHANGED <<now, segVars, turnVars, flagVars, ctxVars, cmdVars>>
    /\ UNCHANGED <<silence_timeout, streamVars>>

\* line 184 (and 185), d = advance of the clock up to this reading
MCtoIf(d) ==
    /\ pc = "cto_if"
    /\ now' = now + d
    /\ IF ContextExpired(conversation_turns, now + d, last_activity_time)
       THEN /\ emitted' = <<Ev("debug", << >>)>>
            /\ pc' = "cto_clear"
            /\ UNCHANGED mutedInTurn
       ELSE /\ emitted' = << >>
            /\ pc' = AfterTimeoutCheck
            /\ mutedInTurn' = MutedWithChunks
    /\ calls' = << >>
    /\ UNCHANGED <<recording, frames, silence_start, speech_detected, firstSilAt, fired>>
    /\ UNCHANGED <<turnVars, flagVars, ctxVars, cmdVars>>
    /\ UNCHANGED <<silence_timeout, streamVars>>

\* line 186
MCtoClear ==
    /\ pc = "cto_clear"
    /\ conversation_turns' = << >>
    /\ added' = << >>
    /\ pc' = "cto_stamp"
    /\ emitted' = << >>
    /\ calls' = << >>
    /\ UNCHANGED <<now, segVars, turnVars, flagVars, last_activity_time, cmdVars>>
    /\ UNCHANGED <<silence_timeout, streamVars>>

\* line 187
MCtoStamp(d) ==
    /\ pc = "cto_stamp"
    /\ now' = now + d
    /\ last_activity_time' = now + d
    /\ pc' = AfterTimeoutCheck
    /\ mutedInTurn' = MutedWithChunks
    /\ emitted' = << >>
    /\ calls' = << >>
    /\ UNCHANGED <<recording, frames, silence_start, speech_detected, firstSilAt, fired>>
    /\ UNCHANGED <<turnVars, flagVars, conversation_turns, added, cmdVars>>
    /\ UNCHANGED <<silence_timeout, streamVars>>

\* SILENCE_THRESHOLD (line 407)
SILENCE_THRESHOLD == 400

\* samples per chunk in the model (CHUNK_SIZE in the code)
ChunkSamples == 3

\* np.abs on one int16 sample: the result is an int16, so -32768 stays -32768
AbsInt16(x) ==
    LET a == IF x < 0 THEN 0 - x ELSE x
    IN  ((a + 32768) % 65536) - 32768

\* sum of the elements of np.abs(audio_chunk) from sample i on (mean() adds in float64)
RECURSIVE SumAbs(_, _)
SumAbs(chunk, i) ==
    IF i > Len(chunk) THEN 0 ELSE AbsInt16(chunk[i]) + SumAbs(chunk, i + 1)

\* np.abs(audio_chunk).mean() (line 381), as the fraction sum / n
calculate_energy(chunk) == [sum |-> SumAbs(chunk, 1), n |-> Len(chunk)]

\* energy > SILENCE_THRESHOLD (line 430)
Classify(chunk) ==
    LET energy == calculate_energy(chunk)
    IN  IF energy.sum > SILENCE_THRESHOLD * energy.n THEN "speech" ELSE "silence"

\* the history counter mutedReads stops counting here
MaxMutedReads == 2

\* lines 425-444: read one chunk of samples (d = time the read took), classify it
MReadChunk(chunk, d) ==
    LET k == Classify(chunk) IN
    /\ pc = "read"
    /\ now' = now + d
    /\ calls' = <<"read", k>>
    /\ audio_chunk' = chunk
    /\ IF k = "speech"
       THEN /\ emitted' = IF recording THEN << >> ELSE <<Ev("user_speaking", << >>)>>
            /\ recording' = TRUE
            /\ speech_detected' = (IF recording THEN speech_detected ELSE TRUE)
            /\ frames' = Append(frames, k)
            /\ silence_start' = SilenceStartAfterSpeech(silence_start)
            /\ firstSilAt' = None
            /\ pc' = "while"
       ELSE IF recording
       THEN /\ emitted' = << >>
            /\ silence_start' = (IF silence_start = None THEN now + d ELSE silence_start)
            /\ frames' = Append(frames, k)
            /\ firstSilAt' = (IF frames # << >> /\ frames[Len(frames)] = "silence"
                              THEN firstSilAt ELSE now + d)
            /\ pc' = "sil_if"
            /\ UNCHANGED <<recording, speech_detected>>
       ELSE /\ emitted' = << >>
            /\ pc' = "while"
            /\ UNCHANGED <<recording, speech_detected, frames, silence_start, firstSilAt>>
    /\ mutedReads' = (IF is_muted /\ mutedReads < MaxMutedReads
                      THEN mutedReads + 1 ELSE mutedReads)
    /\ UNCHANGED <<fired, mutedInTurn, transcription, response, llm, parsed, messages,
                   is_muted, should_stop, current_voice, ctxVars, cmdVars>>
    /\ UNCHANGED <<silence_timeout, streamVars>>

\* a chunk that is classified as k
ChunkOfKind(k) ==
    IF k = "speech" THEN [i \in 1..ChunkSamples |-> SILENCE_THRESHOLD + 1]
    ELSE [i \in 1..ChunkSamples |-> 0]

\* lines 425-444 with a chunk of kind k
MRead(k, d) == MReadChunk(ChunkOfKind(k), d)

\* line 425 raises (an error of the audio device)
MReadFail(d) ==
    /\ pc = "read"
    /\ now' = now + d
    /\ calls' = <<"read", "raised">>
    /\ emitted' = <<Ev("error", << >>)>>
    /\ pc' = AfterException
    /\ UNCHANGED <<segVars, turnVars, flagVars, ctxVars, cmdVars>>
    /\ UNCHANGED <<silence_timeout, streamVars>>

\* lines 447-448 (and 485-488 when the turn is too short)
MSilIf(d) ==
    /\ pc = "sil_if"
    /\ now' = now + d
    /\ emitted' = << >>
    /\ calls' = << >>
    /\ IF SilenceElapsed(now + d, silence_start)
       THEN IF speech_detected /\ LongEnough(Len(frames))
            THEN /\ pc' = "transcribe"
                 /\ fired' = TRUE
                 /\ UNCHANGED <<recording, frames, silence_start, speech_detected, firstSilAt,
                                mutedInTurn>>
            ELSE /\ pc' = "while"
                 /\ ResetAccumulator
       ELSE /\ pc' = "while"
            /\ UNCHANGED segVars
    /\ UNCHANGED <<turnVars, flagVars, ctxVars, cmdVars>>
    /\ UNCHANGED <<silence_timeout, streamVars>>

\* mutant: an empty transcription is treated like any other
HasText_Always(text) == TRUE

\* line 455: if transcription
HasText(text) == text # << >>

\* lines 450-463: o = [ok, text] is the outcome of whisper_model.transcribe
MTranscribe(o) ==
    /\ pc = "transcribe"
    /\ calls' = IF o.ok THEN <<"transcribe">> ELSE <<"transcribe", "raised">>
    /\ IF ~o.ok
       THEN \* exception, handled at lines 490-491
            /\ emitted' = <<Ev("error", << >>)>>
            /\ pc' = AfterException
            /\ UNCHANGED <<segVars, transcription, response>>
       ELSE IF ~HasText(o.text)
       THEN \* lines 452, 485-488
            /\ emitted' = << >>
            /\ transcription' = o.text
            /\ pc' = "while"
            /\ ResetAccumulator
            /\ UNCHANGED response
       ELSE IF IsExit(o.text)
       THEN /\ emitted' = <<Ev("transcription", o.text), Ev("jarvis_speaking", <<"Goodbye!">>)>>
            /\ transcription' = o.text
            /\ response' = <<"Goodbye!">>
            /\ pc' = "bye_speak"
            /\ UNCHANGED segVars
       ELSE /\ emitted' = <<Ev("transcription", o.text)>>
            /\ transcription' = o.text
            /\ pc' = "addU_append"
            /\ UNCHANGED <<segVars, response>>
    /\ UNCHANGED <<now, llm, parsed, messages, audio_chunk, flagVars, ctxVars, cmdVars>>
    /\ UNCHANGED <<silence_timeout, streamVars>>

\* line 461: speak_text("Goodbye!")
MByeSpeak(ok) ==
    /\ pc = "bye_speak"
    /\ calls' = <<"tts">>
    /\ emitted' = IF ok THEN << >> ELSE <<Ev("error", << >>)>>
    /\ pc' = "bye_stop"
    /\ UNCHANGED <<now, segVars, turnVars, flagVars, ctxVars, cmdVars>>
    /\ UNCHANGED <<silence_timeout, streamVars>>

\* lines 462-463
MByeStop ==
    /\ pc = "bye_stop"
    /\ should_stop' = TRUE
    /\ pc' = "cleanup"
    /\ emitted' = << >>
    /\ calls' = << >>
    /\ UNCHANGED <<now, segVars, turnVars, is_muted, current_voice, mutedReads, ctxVars, cmdVars>>
    /\ UNCHANGED <<silence_timeout, streamVars>>

\* line 175 called from line 466 (user) or line 473 (assistant)
MAddAppend ==
    /\ pc \in {"addU_append", "addA_append"}
    /\ Len(added) < MaxAdded
    /\ LET rec == IF pc = "addU_append" THEN Rec("user", transcription)
                  ELSE Rec("assistant", response)
       IN  /\ conversation_turns' = Append(conversation_turns, rec)
           /\ added' = Append(added, rec)
    /\ pc' = (IF pc = "addU_append" THEN "addU_len" ELSE "addA_len")
    /\ emitted' = << >>
    /\ calls' = << >>
    /\ UNCHANGED <<now, segVars, turnVars, flagVars, last_activity_time, cmdVars>>
    /\ UNCHANGED <<silence_timeout, streamVars>>

\* line 176
MAddLen ==
    /\ pc \in {"addU_len", "addA_len"}
    /\ pc' = (IF NeedsEvict(conversation_turns)
              THEN (IF pc = "addU_len" THEN "addU_pop" ELSE "addA_pop")
              ELSE (IF pc = "addU_len" THEN "addU_stamp" ELSE "addA_stamp"))
    /\ emitted' = << >>
    /\ calls' = << >>
    /\ UNCHANGED <<now, segVars, turnVars, flagVars, ctxVars, cmdVars>>
    /\ UNCHANGED <<silence_timeout, streamVars>>

\* line 177; pop from an empty list raises IndexError, handled at lines 490-491
MAddPop ==
    /\ pc \in {"addU_pop", "addA_pop"}
    /\ calls' = << >>
    /\ IF conversation_turns = << >>
       THEN /\ emitted' = <<Ev("error", <<"IndexError">>)>>
            /\ pc' = AfterException
            /\ UNCHANGED conversation_turns
       ELSE /\ emitted' = << >>
            /\ conversation_turns' = Evict(conversation_turns)
            /\ pc' = (IF pc = "addU_pop" THEN "addU_stamp" ELSE "addA_stamp")
    /\ UNCHANGED <<now, segVars, turnVars, flagVars, last_activity_time, added, cmdVars>>
    /\ UNCHANGED <<silence_timeout, streamVars>>

\* line 180
MAddStamp(d) ==
    /\ pc \in {"addU_stamp", "addA_stamp"}
    /\ now' = now + d
    /\ last_activity_time' = now + d
    /\ pc' = (IF pc = "addU_stamp" THEN "gen" ELSE "turn_evt")
    /\ emitted' = << >>
    /\ calls' = << >>
    /\ UNCHANGED <<segVars, turnVars, flagVars, conversation_turns, added, cmdVars>>
    /\ UNCHANGED <<silence_timeout, streamVars>>

\* line 469: the request is built at lines 194-196, o is the endpoint's outcome
MGenerate(o) ==
    /\ pc = "gen"
    /\ calls' = <<"llm">>
    /\ messages' = BuildMessages(conversation_turns, transcription)
    /\ llm' = o
    /\ parsed' = ParsedBy(o)
    /\ response' = generate_fast_response(transcription, o)
    /\ emitted' = GenerateEvents(transcription, o)
    /\ pc' = "resp_if"
    /\ UNCHANGED <<now, segVars, transcription, audio_chunk, flagVars, ctxVars, cmdVars>>
    /\ UNCHANGED <<silence_timeout, streamVars>>

\* lines 469 (return), 471-472
MRespIf ==
    /\ pc = "resp_if"
    /\ calls' = << >>
    /\ IF response # << >>
       THEN /\ emitted' = <<Ev("jarvis_speaking", response)>>
            /\ pc' = "addA_append"
            /\ UNCHANGED segVars
       ELSE /\ emitted' = << >>
            /\ pc' = "while"
            /\ ResetAccumulator
    \* generate_fast_response has returned: its local list is gone
    /\ messages' = << >>
    /\ UNCHANGED <<now, transcription, response, llm, parsed, audio_chunk,
                   flagVars, ctxVars, cmdVars>>
    /\ UNCHANGED <<silence_timeout, streamVars>>

\* lines 476-478
MTurnEvent ==
    /\ pc = "turn_evt"
    /\ emitted' = <<Ev("conversation_turn", transcription \o response)>>
    /\ calls' = << >>
    /\ pc' = "speak"
    /\ UNCHANGED <<now, segVars, turnVars, flagVars, ctxVars, cmdVars>>
    /\ UNCHANGED <<silence_timeout, streamVars>>

\* line 481: speak_text(response); on a TTS failure lines 345, 483, 485-488
MSpeak(ok) ==
    /\ pc = "speak"
    /\ calls' = <<"tts">>
    /\ IF ok
       THEN /\ emitted' = << >>
            /\ pc' = "playing"
            /\ UNCHANGED segVars
       ELSE /\ emitted' = SpeakFailureEvents
            /\ pc' = "while"
            /\ ResetAccumulator
    /\ UNCHANGED <<now, turnVars, flagVars, ctxVars, cmdVars>>
    /\ UNCHANGED <<silence_timeout, streamVars>>

\* playback finished: lines 483, 485-488
MPlaying ==
    /\ pc = "playing"
    /\ emitted' = <<Ev("listening", << >>)>>
    /\ calls' = << >>
    /\ pc' = "while"
    /\ ResetAccumulator
    /\ UNCHANGED <<now, turnVars, flagVars, ctxVars, cmdVars>>
    /\ UNCHANGED <<silence_timeout, streamVars>>

\* cleanup(), lines 650-658
MCleanup ==
    /\ pc = "cleanup"
    /\ emitted' = <<Ev("shutdown_complete", << >>)>>
    /\ calls' = << >>
    /\ pc' = "done"
    /\ UNCHANGED <<now, segVars, turnVars, flagVars, ctxVars, cmdVars>>
    /\ UNCHANGED <<silence_timeout, streamVars>>

(***************************************************************************)
(* Command thread: listen_for_commands() and handle_command()              *)
(***************************************************************************)
\* line 618
CWhile ==
    /\ cpc = "cwhile"
    /\ cpc' = IF should_stop THEN "cdone" ELSE "idle"
    /\ emitted' = << >>
    /\ calls' = << >>
    /\ UNCHANGED <<now, pc, segVars, turnVars, flagVars, ctxVars, cmd, announcement, command, resetRun>>
    /\ UNCHANGED <<silence_timeout, streamVars>>

\* lines 621-624, 497-499: a mute command is read
CMute ==
    /\ cpc = "idle"
    /\ cmd' = "mute"
    /\ is_muted' = TRUE
    /\ mutedReads' = (IF is_muted THEN mutedReads ELSE 0)
    /\ emitted' = <<Ev("muted", << >>)>>
    /\ calls' = << >>
    /\ cpc' = "cwhile"
    /\ UNCHANGED <<now, pc, segVars, turnVars, should_stop, current_voice, ctxVars,
                   announcement, command, resetRun>>
    /\ UNCHANGED <<silence_timeout, streamVars>>

\* lines 621-624, 500-502: an unmute command is read
CUnmute ==
    /\ cpc = "idle"
    /\ cmd' = "unmute"
    /\ is_muted' = FALSE
    /\ mutedReads' = 0
    /\ emitted' = <<Ev("unmuted", << >>)>>
    /\ calls' = << >>
    /\ cpc' = "cwhile"
    /\ UNCHANGED <<now, pc, segVars, turnVars, should_stop, current_voice, ctxVars,
                   announcement, command, resetRun>>
    /\ UNCHANGED <<silence_timeout, streamVars>>

\* lines 621-624, 508-512: a change_voice command is read
CChangeVoice(new_voice) ==
    /\ cpc = "idle"
    /\ cmd' = "change_voice"
    /\ current_voice' = new_voice
    /\ emitted' = <<Ev("debug", << >>)>>
    /\ calls' = << >>
    /\ cpc' = "cwhile"
    /\ UNCHANGED <<now, pc, segVars, turnVars, is_muted, should_stop, mutedReads, ctxVars,
                   announcement, command, resetRun>>
    /\ UNCHANGED <<silence_timeout, streamVars>>

\* lines 621-624, 513-514: a shutdown command is read
CShutdown ==
    /\ cpc = "idle"
    /\ cmd' = "shutdown"
    /\ should_stop' = TRUE
    /\ emitted' = << >>
    /\ calls' = << >>
    /\ cpc' = "cwhile"
    /\ UNCHANGED <<now, pc, segVars, turnVars, is_muted, current_voice, mutedReads, ctxVars,
                   announcement, command, resetRun>>
    /\ UNCHANGED <<silence_timeout, streamVars>>

\* mutant: the listener thread ends on a bad line
AfterBadLine_Exit == "cdone"

\* position of the listener after log_error at line 614, 626 or 628: sleep, next iteration
AfterBadLine == "cwhile"

\* kinds of lines the listener cannot act on: json.loads raises (lines 625-626),
\* the value is no object so that .get raises (627-628), the command is unknown (613-614)
BadLines == {"malformed", "not_object", "unknown"}

\* lines 621-628, 613-614: a line is read that is no known command
CBadLine(kind) ==
    /\ cpc = "idle"
    /\ cmd' = (IF kind = "unknown" THEN "unknown" ELSE cmd)
    /\ emitted' = <<Ev("error", <<kind>>)>>
    /\ calls' = << >>
    /\ cpc' = AfterBadLine
    /\ UNCHANGED <<now, pc, segVars, turnVars, flagVars, ctxVars, announcement, command, resetRun>>
    /\ UNCHANGED <<silence_timeout, streamVars>>

\* lines 621-624, 503-505: a reset_context command is read; the history is cleared
CResetClear ==
    /\ cpc = "idle"
    /\ cmd' = "reset_context"
    /\ conversation_turns' = << >>
    /\ added' = << >>
    /\ cpc' = "rst_stamp"
    /\ emitted' = << >>
    /\ calls' = << >>
    /\ UNCHANGED <<now, pc, segVars, turnVars, flagVars, last_activity_time, announcement, command, resetRun>>
    /\ UNCHANGED <<silence_timeout, streamVars>>

\* mutant: reset_context leaves the timestamp as it was
ResetStamp_Stale(t, last) == last

\* last_activity_time after reset_context (line 506), t = time.time()
ResetStamp(t, last) == t

\* lines 506-507
CResetStamp(d) ==
    /\ cpc = "rst_stamp"
    /\ now' = now + d
    /\ last_activity_time' = ResetStamp(now + d, last_activity_time)
    /\ resetRun' = (IF Len(resetRun) < 2 THEN Append(resetRun, now + d)
                    ELSE <<resetRun[2], now + d>>)
    /\ emitted' = <<Ev("debug", << >>)>>
    /\ calls' = << >>
    /\ cpc' = "cwhile"
    /\ UNCHANGED <<pc, segVars, turnVars, flagVars, conversation_turns, added, cmd, announcement, command>>
    /\ UNCHANGED <<silence_timeout, streamVars>>

\* lines 621-624, 515-605: an announce command c is read, the clock is stamped
\* and the announcement is built and formatted
CAnnounce(c, d) ==
    /\ cpc = "idle"
    /\ cmd' = "announce"
    /\ now' = now + d
    /\ last_activity_time' = now + d
    /\ command' = c
    /\ announcement' = _format_for_tts(BuildAnnouncement(c))
    /\ resetRun' = << >>
    /\ cpc' = "ann_append"
    /\ emitted' = << >>
    /\ calls' = << >>
    /\ UNCHANGED <<pc, segVars, turnVars, flagVars, conversation_turns, added>>
    /\ UNCHANGED <<silence_timeout, streamVars>>

\* line 175 called from line 608
CAnnAppend ==
    /\ cpc = "ann_append"
    /\ Len(added) < MaxAdded
    /\ conversation_turns' = Append(conversation_turns, Rec("assistant", announcement))
    /\ added' = Append(added, Rec("assistant", announcement))
    /\ cpc' = "ann_len"
    /\ emitted' = << >>
    /\ calls' = << >>
    /\ UNCHANGED <<now, pc, segVars, turnVars, flagVars, last_activity_time, cmd, announcement, command, resetRun>>
    /\ UNCHANGED <<silence_timeout, streamVars>>

\* line 176
CAnnLen ==
    /\ cpc = "ann_len"
    /\ cpc' = (IF NeedsEvict(conversation_turns) THEN "ann_pop" ELSE "ann_stamp")
    /\ emitted' = << >>
    /\ calls' = << >>
    /\ UNCHANGED <<now, pc, segVars, turnVars, flagVars, ctxVars, cmd, announcement, command, resetRun>>
    /\ UNCHANGED <<silence_timeout, streamVars>>

\* line 177; pop from an empty list raises IndexError, handled at lines 627-628
CAnnPop ==
    /\ cpc = "ann_pop"
    /\ calls' = << >>
    /\ IF conversation_turns = << >>
       THEN /\ emitted' = <<Ev("error", <<"IndexError">>)>>
            /\ cpc' = "cwhile"
            /\ UNCHANGED conversation_turns
       ELSE /\ emitted' = << >>
            /\ conversation_turns' = Evict(conversation_turns)
            /\ cpc' = "ann_stamp"
    /\ UNCHANGED <<now, pc, segVars, turnVars, flagVars, last_activity_time, added, cmd, announcement, command, resetRun>>
    /\ UNCHANGED <<silence_timeout, streamVars>>

\* line 180
CAnnStamp(d) ==
    /\ cpc = "ann_stamp"
    /\ now' = now + d
    /\ last_activity_time' = now + d
    /\ cpc' = "ann_speak"
    /\ emitted' = << >>
    /\ calls' = << >>
    /\ UNCHANGED <<pc, segVars, turnVars, flagVars, conversation_turns, added, cmd, announcement, command, resetRun>>
    /\ UNCHANGED <<silence_timeout, streamVars>>

\* lines 610-611
CAnnSpeak(ok) ==
    /\ cpc = "ann_speak"
    /\ calls' = <<"tts">>
    /\ emitted' = <<Ev("debug", announcement)>> \o (IF ok THEN << >> ELSE <<Ev("error", << >>)>>)
    /\ cpc' = "ann_evt"
    /\ UNCHANGED <<now, pc, segVars, turnVars, flagVars, ctxVars, cmd, announcement, command, resetRun>>
    /\ UNCHANGED <<silence_timeout, streamVars>>

\* line 612
CAnnEvent ==
    /\ cpc = "ann_evt"
    /\ emitted' = <<Ev("jarvis_speaking", announcement)>>
    /\ calls' = << >>
    /\ cpc' = "cwhile"
    /\ UNCHANGED <<now, pc, segVars, turnVars, flagVars, ctxVars, cmd, announcement, command, resetRun>>
    /\ UNCHANGED <<silence_timeout, streamVars>>

(***************************************************************************)
(* Inputs                                                                  *)
(***************************************************************************)
FrameKinds == {"speech", "silence"}

\* outcomes of whisper_model.transcribe: an exception or a transcript
Transcripts == {<< >>, <<"Hello">>, <<"what", "?">>, <<"Goodbye">>}

TranscribeOutcomes ==
    {[ok |-> FALSE, text |-> << >>]} \cup {[ok |-> TRUE, text |-> t] : t \in Transcripts}

\* contents of the reply of the LLM endpoint
Replies ==
    { << >>, <<" ">>, <<"a">>,
      <<"[ANSWER]", " ", "a">>,
      <<"[INSTRUCTION]", " ", "b">>,
      <<"[ANSWER]", " ", "a", " ", "[INSTRUCTION]", " ", "b">> }

LlmOutcomes ==
    {[kind |-> k, status |-> 0, content |-> << >>] : k \in {"timeout", "connerr", "exception"}}
    \cup {[kind |-> "http", status |-> 500, content |-> <<"a">>]}
    \cup {[kind |-> "http", status |-> 200, content |-> c] : c \in Replies}

\* clock advances that keep the clock within the bound
Adv(deltas, max) == {d \in deltas : now + d <= max}

(***************************************************************************)
(* Spec: the main loop while no command arrives, with free chunk           *)
(* classifications and clock advances around the silence timeout.  Within  *)
(* MaxNow the context never expires and the history never overflows, so    *)
(* the steps at lines 177 and 186-187 are not reachable here; they are     *)
(* part of SpecSeq and SpecConc.                                           *)
(***************************************************************************)
SegAdv == Adv(SegDeltas, MaxNow)

Next ==
    \/ \E ok \in BOOLEAN : MStart(ok)
    \/ MReady
    \/ MWhile
    \/ \E d \in SegAdv : MCtoIf(d)
    \/ \E k \in FrameKinds, d \in SegAdv : Len(frames) < MaxFrames /\ MRead(k, d)
    \/ \E d \in SegAdv : MSilIf(d)
    \/ \E o \in TranscribeOutcomes : MTranscribe(o)
    \/ \E ok \in BOOLEAN : MByeSpeak(ok)
    \/ MByeStop
    \/ MAddAppend
    \/ MAddLen
    \/ \E d \in SegAdv : MAddStamp(d)
    \/ \E o \in LlmOutcomes : MGenerate(o)
    \/ MRespIf
    \/ MTurnEvent
    \/ \E ok \in BOOLEAN : MSpeak(ok)
    \/ MPlaying
    \/ MCleanup

Spec == Init /\ [][Next]_vars

(***************************************************************************)
(* SpecSeq and SpecConc: both threads, with one canonical utterance (eight *)
(* speech chunks, then silence), one transcript, one LLM outcome and one   *)
(* announcement text, and clock advances around the context timeout.       *)
(***************************************************************************)
CtxKinds == IF Len(frames) < MinSpeechFrames + 1 THEN {"speech"} ELSE {"silence"}

CtxTranscripts == {[ok |-> TRUE, text |-> <<"Hello">>]}

CtxLlm == {[kind |-> "timeout", status |-> 0, content |-> << >>]}

Announcements == {[text |-> <<"done">>, changes |-> << >>, notes |-> << >>,
                   risks |-> << >>, next_questions |-> << >>]}

\* a thread is inside add_conversation_turn, check_context_timeout or reset_context
MainInContextOp ==
    pc \in {"cto_clear", "cto_stamp", "addU_len", "addU_pop", "addU_stamp",
            "addA_len", "addA_pop", "addA_stamp"}

CmdInContextOp == cpc \in {"rst_stamp", "ann_len", "ann_pop", "ann_stamp"}

MainFree == ~CmdInContextOp

CmdFree == ~MainInContextOp

SeqAdv == Adv(CtxDeltas, MaxNowCtx)

ConcAdv == Adv(ConcDeltas, MaxNowCtx)

\* the context operations are applied one at a time
NextSeq ==
    \/ MainFree /\ MStart(TRUE)
    \/ MainFree /\ MReady
    \/ MainFree /\ MWhile
    \/ MainFree /\ \E d \in SeqAdv : MCtoIf(d)
    \/ MainFree /\ MCtoClear
    \/ MainFree /\ \E d \in SeqAdv : MCtoStamp(d)
    \/ MainFree /\ \E k \in CtxKinds, d \in SeqAdv : Len(frames) < MaxFrames /\ MRead(k, d)
    \/ MainFree /\ \E d \in SeqAdv : MSilIf(d)
    \/ MainFree /\ \E o \in CtxTranscripts : MTranscribe(o)
    \/ MainFree /\ MAddAppend
    \/ MainFree /\ MAddLen
    \/ MainFree /\ MAddPop
    \/ MainFree /\ \E d \in SeqAdv : MAddStamp(d)
    \/ MainFree /\ \E o \in CtxLlm : MGenerate(o)
    \/ MainFree /\ MRespIf
    \/ MainFree /\ MTurnEvent
    \/ MainFree /\ MSpeak(TRUE)
    \/ MainFree /\ MPlaying
    \/ CmdFree /\ CWhile
    \/ CmdFree /\ CResetClear
    \/ CmdFree /\ \E d \in SeqAdv : CResetStamp(d)
    \/ CmdFree /\ \E c \in Announcements, d \in SeqAdv : CAnnounce(c, d)
    \/ CmdFree /\ CAnnAppend
    \/ CmdFree /\ CAnnLen
    \/ CmdFree /\ CAnnPop
    \/ CmdFree /\ \E d \in SeqAdv : CAnnStamp(d)
    \/ CmdFree /\ CAnnSpeak(TRUE)
    \/ CmdFree /\ CAnnEvent

SpecSeq == Init /\ [][NextSeq]_vars

\* the two threads interleave statement by statement
NextConc ==
    \/ MStart(TRUE)
    \/ MReady
    \/ MWhile
    \/ \E d \in ConcAdv : MCtoIf(d)
    \/ MCtoClear
    \/ \E d \in ConcAdv : MCtoStamp(d)
    \/ \E k \in CtxKinds, d \in ConcAdv : Len(frames) < MaxFrames /\ MRead(k, d)
    \/ \E d \in ConcAdv : MSilIf(d)
    \/ \E o \in CtxTranscripts : MTranscribe(o)
    \/ MAddAppend
    \/ MAddLen
    \/ MAddPop
    \/ \E d \in ConcAdv : MAddStamp(d)
    \/ \E o \in CtxLlm : MGenerate(o)
    \/ MRespIf
    \/ MTurnEvent
    \/ MSpeak(TRUE)
    \/ MPlaying
    \/ CWhile
    \/ CResetClear
    \/ \E d \in ConcAdv : CResetStamp(d)
    \/ \E c \in Announcements, d \in ConcAdv : CAnnounce(c, d)
    \/ CAnnAppend
    \/ CAnnLen
    \/ CAnnPop
    \/ \E d \in ConcAdv : CAnnStamp(d)
    \/ CAnnSpeak(TRUE)
    \/ CAnnEvent

SpecConc == Init /\ [][NextConc]_vars

(***************************************************************************)
(* SpecScript: the main loop fed the chunk sequence 20 speech, 5 silence,  *)
(* 20 speech, then silence.  The n-th chunk read is the n-th chunk of the  *)
(* script; as the script starts with speech and every chunk read while     *)
(* recording is accumulated, n - 1 = Len(frames).  During the pause the    *)
(* clock stays below the timeout.  The run ends when the turn is handed to *)
(* the transcriber.                                                        *)
(***************************************************************************)
ScriptKind(n) ==
    IF n < 20 THEN "speech"
    ELSE IF n < 25 THEN "silence"
    ELSE IF n < 45 THEN "speech"
    ELSE "silence"

ScriptFrames == [i \in 1..45 |-> ScriptKind(i - 1)]

ScriptAdv == Adv(SegDeltas, MaxNowScript)

\* in the pause, less than SILENCE_DURATION has passed since its first chunk
PauseOk(d) == Len(frames) \in 21..25 => (now + d) - silence_start < SILENCE_DURATION

NextScript ==
    \/ MStart(TRUE)
    \/ MReady
    \/ MWhile
    \/ \E d \in ScriptAdv : MCtoIf(d)
    \/ \E d \in ScriptAdv :
          Len(frames) < MaxScriptFrames /\ PauseOk(d) /\ MRead(ScriptKind(Len(frames)), d)
    \/ \E d \in ScriptAdv : PauseOk(d) /\ MSilIf(d)

SpecScript == Init /\ [][NextScript]_vars

(***************************************************************************)
(* Properties                                                              *)
(***************************************************************************)

\* C1: every turn handed to the transcriber has accumulated at least
\* MIN_SPEECH_DURATION of audio: frames * CHUNK_SIZE / sample_rate >= 0.5 s.
C1_MinTurnDuration ==
    pc = "transcribe" =>
        Len(frames) * CHUNK_SIZE * 1000 >= MIN_SPEECH_DURATION * sample_rate

\* a turn of the shortest accepted length is about to be transcribed
C1_Witness == pc = "transcribe" /\ Len(frames) = MinSpeechFrames + 1

\* C2: a speech chunk that arrives while the turn is in trailing silence does
\* not split the turn: the silence timer is cancelled and the chunk joins the
\* accumulated frames; frames are only ever dropped by the reset that follows
\* a fired timeout; and the timeout fires only when SILENCE_DURATION has
\* passed since the first silence chunk after the last speech chunk.
C2_SpeechResumes ==
    /\ pc = "read"
    /\ recording
    /\ silence_start # None
    /\ calls' = <<"read", "speech">>

C2_TimeoutFires ==
    /\ pc = "sil_if"
    /\ pc' = "transcribe" \/ frames' = << >>

C2_NoSplit ==
    /\ [][C2_SpeechResumes =>
            /\ silence_start' = None
            /\ recording'
            /\ frames' = Append(frames, "speech")]_vars
    /\ [][frames' # frames =>
            \/ \E k \in FrameKinds : frames' = Append(frames, k)
            \/ frames' = << >> /\ (fired \/ C2_TimeoutFires)]_vars
    /\ [][C2_TimeoutFires =>
            /\ firstSilAt # None
            /\ frames[Len(frames)] = "silence"
            /\ now' - firstSilAt >= SILENCE_DURATION]_vars

\* a turn whose frames hold speech, a pause and speech again is handed to the
\* transcriber as one turn
C2_Witness ==
    /\ pc = "transcribe"
    /\ \E i, j, k \in 1..Len(frames) :
          /\ i < j /\ j < k
          /\ frames[i] = "speech" /\ frames[j] = "silence" /\ frames[k] = "speech"

\* C3 (as stated): for the script 20 speech, 5 silence, 20 speech, silence
\* until the timeout, the emitted turn contains exactly 45 frames.
C3_Exactly45Frames == pc = "transcribe" => Len(frames) = 45

\* C3 (amended): for that script exactly one turn is emitted, and it contains
\* the 45 chunks of the script followed by the trailing silence chunks read
\* until the timeout fired, at least one: 46 frames or more.
C3_OneTurnWithTrailingSilence ==
    /\ fired => pc = "transcribe"
    /\ pc = "transcribe" =>
          /\ Len(frames) > 45
          /\ SubSeq(frames, 1, 45) = ScriptFrames
          /\ \A i \in 46..Len(frames) : frames[i] = "silence"

\* the timeout fired on the first trailing silence chunk
C3_Witness == pc = "transcribe" /\ Len(frames) = 46

\* C4 (as stated): once the silence timeout has fired for a turn, the
\* accumulator is reset before the next chunk is read, whatever the outcome.
C4_ResetBeforeNextRead == pc = "read" => ~fired

\* C5: when the timeout fires on a turn whose audio does not exceed
\* MIN_SPEECH_DURATION, the turn is dropped in that step: no collaborator is
\* called, no event is sent, history and last-activity time are unchanged.
C5_ShortTurnTimesOut ==
    /\ pc = "sil_if"
    /\ SilenceElapsed(now', silence_start)
    /\ Len(frames) * CHUNK_SIZE * 1000 <= MIN_SPEECH_DURATION * sample_rate

C5_ShortTurnDropped ==
    [][C5_ShortTurnTimesOut =>
          /\ calls' = << >>
          /\ emitted' = << >>
          /\ UNCHANGED <<conversation_turns, last_activity_time, transcription, response>>
          /\ pc' = "while"
          /\ ~recording' /\ frames' = << >> /\ silence_start' = None /\ ~speech_detected']_vars

\* the state right after a drop: back at the loop head with an empty
\* accumulator after a step that neither read a chunk nor sent an event
\* (only the drop leaves such a state once the clock has advanced)
C5_Witness ==
    /\ pc = "while"
    /\ ~recording /\ frames = << >>
    /\ calls = << >> /\ emitted = << >>
    /\ now >= SILENCE_DURATION
    /\ conversation_turns = << >>

\* records appended since the last clear that are kept by a bound of n
LastN(s, n) == IF Len(s) <= n THEN s ELSE SubSeq(s, Len(s) - n + 1, Len(s))

\* C6: with the context operations applied one at a time, between operations
\* the history is the last min(n, max_turns) records added since the most
\* recent clear, in insertion order, and never longer than max_turns.
C6_BoundedFifo ==
    (~MainInContextOp /\ ~CmdInContextOp) =>
        /\ Len(conversation_turns) <= max_turns
        /\ conversation_turns = LastN(added, max_turns)

\* an eviction has happened and records of turns and of announces are kept
C6_Witness ==
    /\ ~MainInContextOp /\ ~CmdInContextOp
    /\ Len(added) > max_turns
    /\ Len(conversation_turns) = max_turns
    /\ added[1] # added[Len(added)]
    /\ \E i \in 1..max_turns : conversation_turns[i].role = "user"
    /\ \E i \in 1..max_turns : conversation_turns[i] = Rec("assistant", <<"done">>)

\* C7: check_context_timeout changes nothing when called not later than
\* last_activity + context_timeout; called later with a non-empty history it
\* empties the history and sets last_activity to the current time.
C7_Called == pc = "cto_if" /\ pc' # pc

C7_TimeoutCheck ==
    /\ [][(C7_Called /\ now' <= last_activity_time + context_timeout) =>
            /\ pc' \in {"read", "while"}
            /\ UNCHANGED <<conversation_turns, last_activity_time>>]_vars
    /\ [][(C7_Called /\ now' > last_activity_time + context_timeout
                     /\ conversation_turns # << >>) =>
            pc' = "cto_clear"]_vars
    /\ [][(pc = "cto_clear" /\ pc' # pc) =>
            conversation_turns' = << >> /\ pc' = "cto_stamp"]_vars
    /\ [][(pc = "cto_stamp" /\ pc' # pc) =>
            /\ conversation_turns = << >> /\ conversation_turns' = << >>
            /\ last_activity_time' = now'
            /\ pc' \in {"read", "while"}]_vars

\* a stale non-empty history has just been cleared by the check
C7_Witness ==
    /\ pc = "cto_stamp"
    /\ conversation_turns = << >>
    /\ now > last_activity_time + context_timeout

\* C8: every handling of reset_context, the second of two in a row included,
\* leaves the history empty and sets last_activity to the time of that call.
C8_ResetRefreshes ==
    [][(cpc = "rst_stamp" /\ cpc' # cpc) =>
          /\ conversation_turns' = << >>
          /\ last_activity_time' = now'
          /\ resetRun'[Len(resetRun')] = last_activity_time']_vars

\* two reset_context commands in a row were handled at different times and
\* last_activity is the time of the second
C8_Witness ==
    /\ cpc = "cwhile"
    /\ Len(resetRun) = 2
    /\ resetRun[1] < resetRun[2]
    /\ last_activity_time = resetRun[2]
    /\ conversation_turns = << >>

\* C9 (as stated): add_conversation_turn never raises, whatever the
\* interleaving with a clear of the history: it never pops from an empty list.
C9_AddNeverRaises ==
    \A i \in 1..Len(emitted) : emitted[i] # Ev("error", <<"IndexError">>)

\* the failure cases of the LLM call
C10_Failed(o) ==
    \/ o.kind # "http"
    \/ o.status # 200
    \/ Strip(o.content) = << >>
    \/ _parse_dual_output(Strip(o.content)).answer = << >>

\* C10: whenever generate_fast_response returns, the answer is non-empty, and
\* in every failure case it is the reply of the fallback responder.
C10_AnswerNeverEmpty ==
    pc = "resp_if" =>
        /\ response # << >>
        /\ C10_Failed(llm) => response = _fallback_response(transcription)

\* the LLM replied with an [INSTRUCTION] section only and the fallback answered
C10_Witness ==
    /\ pc = "resp_if"
    /\ llm.kind = "http" /\ llm.status = 200
    /\ llm.content = <<"[INSTRUCTION]", " ", "b">>
    /\ response = <<"Let me think about that.">>


(***************************************************************************)
(* SpecGen: generate_fast_response as a function of the user text and of   *)
(* the outcome of the POST.  A run starts at line 469 of a turn that has   *)
(* just been transcribed and recorded, and takes the one step MGenerate.   *)
(* The replies are all token sequences up to MaxReplyLen, the user texts   *)
(* all non-empty token sequences up to MaxUserLen without an exit word     *)
(* (only such texts reach line 469).                                       *)
(***************************************************************************)
MaxReplyLen == 5

MaxUserLen == 2

ReplyTokens == {"[ANSWER]", "[answer]", "[INSTRUCTION]", "[Instruction]", " ", "a", "b"}

UserTokens == {"this", "Please", "?", "x"}

\* all token sequences of length lo..hi
SeqsOver(tokens, lo, hi) == UNION {[1..n -> tokens] : n \in lo..hi}

GenReplies == SeqsOver(ReplyTokens, 0, MaxReplyLen)

GenUserTexts == SeqsOver(UserTokens, 1, MaxUserLen)

\* the parser does not read the user text: every reply is paired with the
\* one-token user texts, the replies of Replies and the failures with all
GenOutcomes(user_input) ==
    {[kind |-> k, status |-> 0, content |-> << >>] : k \in {"timeout", "connerr", "exception"}}
    \cup {[kind |-> "http", status |-> st, content |-> c] : st \in {200, 500}, c \in Replies}
    \cup (IF Len(user_input) = 1
          THEN {[kind |-> "http", status |-> 200, content |-> c] : c \in GenReplies}
          ELSE {})

\* the state at line 469 after an utterance of eight speech chunks ended by the timeout
InitGen ==
    /\ NoStream
    /\ silence_timeout = DefaultSilenceTimeout
    /\ now = SILENCE_DURATION + 1
    /\ pc = "gen"
    /\ recording = TRUE
    /\ frames = [i \in 1..(MinSpeechFrames + 3) |->
                    IF i <= MinSpeechFrames + 1 THEN "speech" ELSE "silence"]
    /\ silence_start = 0
    /\ speech_detected = TRUE
    /\ transcription \in GenUserTexts
    /\ response = << >>
    /\ llm = [kind |-> "none", status |-> 0, content |-> << >>]
    /\ parsed = NoParse
    /\ messages = << >>
    /\ audio_chunk = << >>
    /\ is_muted = FALSE
    /\ should_stop = FALSE
    /\ current_voice = "af_bella"
    /\ conversation_turns = <<Rec("user", transcription)>>
    /\ last_activity_time = now
    /\ cpc = "idle"
    /\ cmd = "none"
    /\ announcement = << >>
    /\ command = NoCommand
    /\ emitted = << >>
    /\ calls = << >>
    /\ added = conversation_turns
    /\ fired = TRUE
    /\ firstSilAt = 0
    /\ mutedInTurn = FALSE
    /\ resetRun = << >>
    /\ mutedReads = 0

\* the outcomes are enumerated only where line 469 is about to run
NextGen ==
    \E o \in (IF pc = "gen" THEN GenOutcomes(transcription) ELSE {}) : MGenerate(o)

SpecGen == InitGen /\ [][NextGen]_vars


(***************************************************************************)
(* SpecCmd: the main loop and the command listener, freely interleaved,    *)
(* with the commands mute, unmute, change_voice and shutdown and the lines *)
(* the listener cannot act on.  The user speaks at most MaxCmdTurns        *)
(* utterances of eight speech chunks followed by silence; the silence      *)
(* timeout has elapsed when it is first tested; the device read, the       *)
(* transcription and the playback may fail.  A failed transcription keeps  *)
(* the chunks (lines 485-488 are skipped), so it is offered only while     *)
(* fewer than MaxCmdFrames chunks are kept.                                *)
(***************************************************************************)
MaxCmdTurns == 1

MaxCmdFrames == 10

Voices == {"af_bella", "bm_george"}

CmdKinds ==
    IF recording
    THEN (IF Len(frames) < MinSpeechFrames + 1 THEN {"speech"} ELSE {"silence"})
    ELSE (IF Len(added) < 2 * MaxCmdTurns THEN {"speech", "silence"} ELSE {"silence"})

\* the clock reading at line 447: SILENCE_DURATION after the first silent chunk
CmdSilAdv ==
    IF silence_start # None /\ now - silence_start < SILENCE_DURATION
    THEN {SILENCE_DURATION} ELSE {0}

CmdTranscribeOutcomes ==
    {[ok |-> TRUE, text |-> t] : t \in {<<"Hello">>, <<"Goodbye">>, <<"EXIT">>, <<"exited">>}}
    \cup (IF Len(frames) < MaxCmdFrames THEN {[ok |-> FALSE, text |-> << >>]} ELSE {})

CmdLlm ==
    { [kind |-> "timeout", status |-> 0, content |-> << >>],
      [kind |-> "http", status |-> 200, content |-> <<"[ANSWER]", " ", "a">>] }

\* the steps of the main thread
MainCmd ==
    \/ \E ok \in BOOLEAN : MStart(ok)
    \/ MReady
    \/ MWhile
    \/ MCtoIf(0)
    \/ \E k \in CmdKinds : MRead(k, 0)
    \/ MReadFail(0)
    \/ \E d \in CmdSilAdv : MSilIf(d)
    \/ \E o \in CmdTranscribeOutcomes : MTranscribe(o)
    \/ \E ok \in BOOLEAN : MByeSpeak(ok)
    \/ MByeStop
    \/ MAddAppend
    \/ MAddLen
    \/ MAddStamp(0)
    \/ \E o \in CmdLlm : MGenerate(o)
    \/ MRespIf
    \/ MTurnEvent
    \/ \E ok \in BOOLEAN : MSpeak(ok)
    \/ MPlaying
    \/ MCleanup

NextCmd ==
    \/ \E ok \in BOOLEAN : MStart(ok)
    \/ MReady
    \/ MWhile
    \/ MCtoIf(0)
    \/ \E k \in CmdKinds : MRead(k, 0)
    \/ MReadFail(0)
    \/ \E d \in CmdSilAdv : MSilIf(d)
    \/ \E o \in CmdTranscribeOutcomes : MTranscribe(o)
    \/ \E ok \in BOOLEAN : MByeSpeak(ok)
    \/ MByeStop
    \/ MAddAppend
    \/ MAddLen
    \/ MAddStamp(0)
    \/ \E o \in CmdLlm : MGenerate(o)
    \/ MRespIf
    \/ MTurnEvent
    \/ \E ok \in BOOLEAN : MSpeak(ok)
    \/ MPlaying
    \/ MCleanup
    \/ CWhile
    \/ CMute
    \/ CUnmute
    \/ \E v \in Voices : CChangeVoice(v)
    \/ CShutdown
    \/ \E kind \in BadLines : CBadLine(kind)

SpecCmd == Init /\ [][NextCmd]_vars

\* the main thread is never suspended for ever: the interpreter switches
\* threads every few milliseconds, the listener sleeps 0.1 s per line, and
\* every collaborator call returns (the POST has timeout=30)
SpecCmdFair == SpecCmd /\ WF_vars(MainCmd)

(***************************************************************************)
(* SpecConf: the same runs for services built with different values of     *)
(* SILENCE_TIMEOUT in the environment                                      *)
(***************************************************************************)
\* float(os.environ.get("SILENCE_TIMEOUT", "1.0")) (line 670)
SilenceTimeouts ==
    {DefaultSilenceTimeout \div 2, DefaultSilenceTimeout, 2 * DefaultSilenceTimeout}

InitConf == NoStream /\ \E timeout \in SilenceTimeouts : VoiceService(timeout)

SpecConf == InitConf /\ [][NextCmd]_vars

(***************************************************************************)
(* SpecFrame: the main loop on a clock driven by the audio device: every   *)
(* chunk read takes the duration of the chunk, a muted iteration sleeps,   *)
(* and every other step takes no time.  Mute and unmute commands arrive.   *)
(***************************************************************************)
MaxNowFrame == 1500
MaxSpeechRun == 2

\* duration in ms of the CHUNK_SIZE samples that one read returns (line 425)
FrameDuration == (1000 * CHUNK_SIZE) \div sample_rate

\* time.sleep(0.1) of a muted iteration (line 421)
MutedSleep == 100

\* the sleep of the muted iterations, seen by the next reading of the clock
FrameSleepAdv == IF is_muted THEN Adv({0, MutedSleep}, MaxNowFrame) ELSE {0}

\* speech resumes only early in a turn
FrameReadKinds ==
    IF now + FrameDuration > MaxNowFrame THEN {}
    ELSE IF Len(frames) < MaxSpeechRun THEN {"speech", "silence"} ELSE {"silence"}

NextFrame ==
    \/ MStart(TRUE)
    \/ MReady
    \/ MWhile
    \/ \E d \in FrameSleepAdv : MCtoIf(d)
    \/ \E k \in FrameReadKinds : MRead(k, FrameDuration)
    \/ MSilIf(0)
    \/ MTranscribe([ok |-> TRUE, text |-> << >>])
    \/ CWhile
    \/ CMute
    \/ CUnmute

SpecFrame == Init /\ [][NextFrame]_vars

(***************************************************************************)
(* SpecAnn: the announcement as a function of the announce command.  A run *)
(* starts with the listener waiting for a line and takes the one step      *)
(* CAnnounce.  The lists hold up to MaxChanges, MaxNotes, MaxRisks and     *)
(* MaxQuestions distinct items, all starting with a small letter or all    *)
(* with a capital.                                                         *)
(***************************************************************************)
MaxChanges == 5

MaxNotes == 6

MaxRisks == 4

MaxQuestions == 2

\* the items of the lists of an announce: all lower case or all capitalised
Items ==
    [changes      |-> <<"a", "b", "c", "d", "e", "f", "g", "h">>,
     changesCap   |-> <<"Ca", "Cb", "Cc", "Cd", "Ce", "Cf", "Cg", "Ch">>,
     notes        |-> <<"na", "nb", "nc", "nd", "ne", "nf", "ng", "nh">>,
     notesCap     |-> <<"Na", "Nb", "Nc", "Nd", "Ne", "Nf", "Ng", "Nh">>,
     risks        |-> <<"ra", "rb", "rc", "rd", "re", "rf", "rg", "rh">>,
     risksCap     |-> <<"Ra", "Rb", "Rc", "Rd", "Re", "Rf", "Rg", "Rh">>,
     questions    |-> <<"why?", "how?", "what?", "Who?">>]

Headlines == {<<"done">>, <<"Done!">>, <<"Task", " ", "etc.">>}

\* the lists of up to max items
ListsOf(items, itemsCap, max) ==
    {SubSeq(items, 1, n) : n \in 0..max} \cup {SubSeq(itemsCap, 1, n) : n \in 1..max}

AnnCommands ==
    {[text |-> t, changes |-> ch, notes |-> no, risks |-> ri, next_questions |-> qu] :
        t \in Headlines,
        ch \in ListsOf(Items.changes, Items.changesCap, MaxChanges),
        no \in ListsOf(Items.notes, Items.notesCap, MaxNotes),
        ri \in ListsOf(Items.risks, Items.risksCap, MaxRisks),
        qu \in {SubSeq(Items.questions, 1, n) : n \in 0..MaxQuestions}}

\* the service is running and the listener waits for a line
InitAnn ==
    /\ NoStream
    /\ silence_timeout = DefaultSilenceTimeout
    /\ now = 0
    /\ pc = "while"
    /\ recording = FALSE
    /\ frames = << >>
    /\ silence_start = None
    /\ speech_detected = FALSE
    /\ transcription = << >>
    /\ response = << >>
    /\ llm = [kind |-> "none", status |-> 0, content |-> << >>]
    /\ parsed = NoParse
    /\ messages = << >>
    /\ audio_chunk = << >>
    /\ is_muted = FALSE
    /\ should_stop = FALSE
    /\ current_voice = "af_bella"
    /\ conversation_turns = << >>
    /\ last_activity_time = 0
    /\ cpc = "idle"
    /\ cmd = "none"
    /\ announcement = << >>
    /\ command = NoCommand
    /\ emitted = << >>
    /\ calls = << >>
    /\ added = << >>
    /\ fired = FALSE
    /\ firstSilAt = None
    /\ mutedInTurn = FALSE
    /\ resetRun = << >>
    /\ mutedReads = 0

\* the commands are enumerated only where the listener reads a line
NextAnn ==
    \E c \in (IF cpc = "idle" THEN AnnCommands ELSE {}) : CAnnounce(c, 0)

SpecAnn == InitAnn /\ [][NextAnn]_vars

(***************************************************************************)
(* SpecEnergy: the classification of a chunk as a function of its samples. *)
(* The service starts and reads chunks of ChunkSamples int16 samples, each *)
(* drawn from the extremes of the range and the values around the          *)
(* threshold, until one of them is classified as speech.                   *)
(***************************************************************************)
Samples == {-32768, -32767, 0 - SILENCE_THRESHOLD - 1, 0 - SILENCE_THRESHOLD, 0,
            SILENCE_THRESHOLD, SILENCE_THRESHOLD + 1, 32767}

Chunks == [1..ChunkSamples -> Samples]

NextEnergy ==
    \/ MStart(TRUE)
    \/ MReady
    \/ MWhile
    \/ MCtoIf(0)
    \/ \E chunk \in (IF pc = "read" /\ ~recording THEN Chunks ELSE {}) :
           MReadChunk(chunk, 0)

SpecEnergy == Init /\ [][NextEnergy]_vars

(***************************************************************************)
(* SpecStream: one turn of the streaming variant, test_continuous_parallel *)
(* (lines 190-220), from the call of generate_response_streaming on        *)
(***************************************************************************)
\* number of chunks the endpoint streams in one turn
MaxChunks == 3

\* the service's own variables, which the streaming variant does not have
serviceVars ==
    <<silence_timeout, now, pc, segVars, turnVars, flagVars, ctxVars, cmdVars,
      emitted, calls>>

\* contents of one streamed line (data["message"]["content"], line 83)
StreamChunks ==
    {<<"a">>, <<".">>, <<" ">>, <<"a", ".">>, <<".", " ">>, <<"a", ".", " ", "b">>,
     <<"?", " ", " ">>, <<" ", "b">>}

\* re.search(r'[.!?]\s*$', sentence_buffer) (line 203)
EndsSentence(text) ==
    \E i \in 1..Len(text) :
        /\ text[i] \in {".", "!", "?"}
        /\ \A j \in (i + 1)..Len(text) : IsSpace(text[j])

\* lines 191, 212: the turn as generate_response_streaming is called
InitStream ==
    /\ VoiceService(DefaultSilenceTimeout)
    /\ spc = "stream"
    /\ sentence_buffer = << >>
    /\ full_response = << >>
    /\ received = 0
    /\ playing = << >>
    /\ played = << >>

\* lines 78-85 and 196-204: a line with content arrives, on_chunk is called
SChunk(chunk) ==
    /\ spc = "stream"
    /\ received < MaxChunks
    /\ received' = received + 1
    /\ full_response' = full_response \o chunk
    /\ sentence_buffer' = sentence_buffer \o chunk
    /\ spc' = (IF EndsSentence(sentence_buffer \o chunk) THEN "chunk_create" ELSE "stream")
    /\ UNCHANGED <<playing, played, serviceVars>>

\* lines 78, 89-93: the stream ends, or requests raises and line 91 catches it
SStreamEnd ==
    /\ spc = "stream"
    /\ spc' = "rest_if"
    /\ UNCHANGED <<sentence_buffer, full_response, received, playing, played, serviceVars>>

\* line 215
SRestIf ==
    /\ spc = "rest_if"
    /\ spc' = (IF Strip(sentence_buffer) # << >> THEN "rest_create" ELSE "add_turn")
    /\ UNCHANGED <<sentence_buffer, full_response, received, playing, played, serviceVars>>

\* kokoro.create (lines 208, 217); an exception inside on_chunk is caught at
\* line 91 and ends the stream, one at line 217 ends the program
SCreate(ok) ==
    /\ spc \in {"chunk_create", "rest_create"}
    /\ spc' = (IF spc = "chunk_create"
               THEN (IF ok THEN "chunk_play" ELSE "rest_if")
               ELSE (IF ok THEN "rest_play" ELSE "crashed"))
    /\ UNCHANGED <<sentence_buffer, full_response, received, playing, played, serviceVars>>

\* sd.play is called (line 99, from lines 209 and 218): the device starts
SPlayBegin ==
    /\ spc \in {"chunk_play", "rest_play"}
    /\ playing' = Strip(sentence_buffer)
    /\ spc' = (IF spc = "chunk_play" THEN "chunk_wait" ELSE "rest_wait")
    /\ UNCHANGED <<sentence_buffer, full_response, received, played, serviceVars>>

\* the audio device reaches the end of the utterance
DPlayEnd ==
    /\ playing # << >>
    /\ played' = Append(played, playing)
    /\ playing' = << >>
    /\ UNCHANGED <<spc, sentence_buffer, full_response, received, serviceVars>>

\* mutant: sd.play returns while the device is still playing
play_audio_Returns_AtOnce == TRUE

\* sd.play(..., blocking=True) (line 99) returns when the device has finished
play_audio_Returns == playing = << >>

\* play_audio returns: line 210 in on_chunk, line 220 after the remainder
SPlayReturn ==
    /\ spc \in {"chunk_wait", "rest_wait"}
    /\ play_audio_Returns
    /\ sentence_buffer' = (IF spc = "chunk_wait" THEN << >> ELSE sentence_buffer)
    /\ spc' = (IF spc = "chunk_wait" THEN "stream" ELSE "add_turn")
    /\ UNCHANGED <<full_response, received, playing, played, serviceVars>>

NextStream ==
    \/ \E chunk \in StreamChunks : SChunk(chunk)
    \/ SStreamEnd
    \/ SRestIf
    \/ \E ok \in BOOLEAN : SCreate(ok)
    \/ SPlayBegin
    \/ DPlayEnd
    \/ SPlayReturn

SpecStream == InitStream /\ [][NextStream]_vars

(***************************************************************************)
(* Claims about the dual-channel parser and the fallback responder,        *)
(* checked under SpecGen.                                                  *)
(***************************************************************************)
IsMarker(tok) == IsAnswerMarker(tok) \/ IsInstructionMarker(tok)

MarkerFree(text) == \A i \in 1..Len(text) : ~IsMarker(text[i])

\* generate_fast_response has returned from a 200 reply
Replied == pc = "resp_if" /\ llm.kind = "http" /\ llm.status = 200

\* the content as line 222 leaves it
ReplyContent == Strip(llm.content)

\* number of events of a type among the events of the last step
CountEv(type) == Cardinality({i \in 1..Len(emitted) : emitted[i].type = type})

C12_NoMarkerWholeTextIsAnswer ==
    (Replied /\ MarkerFree(ReplyContent)) =>
        /\ parsed = [answer |-> ReplyContent, instruction |-> << >>]
        /\ CountEv("instruction_detected") = 0

C12_Witness ==
    /\ Replied
    /\ llm.content = <<" ", "a", " ", "b">>
    /\ parsed = [answer |-> <<"a", " ", "b">>, instruction |-> << >>]
    /\ CountEv("instruction_detected") = 0

\* C13: in a reply '[INSTRUCTION] b [ANSWER] a' (a, b without markers and
\* not blank) the instruction is trimmed b, without the [ANSWER] section,
\* and the answer is trimmed a.
C13_SectionsEndAtNextMarker ==
    Replied =>
        LET c == ReplyContent
            n == Len(c)
        IN  \A k \in 2..n :
                LET b == SubSeq(c, 2, k - 1)
                    a == SubSeq(c, k + 1, n)
                IN  (/\ IsInstructionMarker(c[1]) /\ IsAnswerMarker(c[k])
                     /\ MarkerFree(a) /\ MarkerFree(b)
                     /\ Strip(a) # << >> /\ Strip(b) # << >>)
                    => parsed = [answer |-> Strip(a), instruction |-> Strip(b)]

C15_FallbackPriority ==
    (pc = "resp_if" /\ llm.kind # "http") =>
        LET greeting == ContainsAny(transcription, {"hello", "hi", "hey"})
            request  == ContainsAny(transcription,
                                    {"let's", "please", "can you", "could you"})
            question == \E i \in 1..Len(transcription) : transcription[i] = "?"
        IN  /\ greeting => response = <<"Hello!">>
            /\ (~greeting /\ request) => response = <<"I'll work on that.">>
            /\ (~greeting /\ ~request /\ question)
                   => response = <<"Let me think about that.">>
            /\ (~greeting /\ ~request /\ ~question) => response = <<"I'm listening.">>
            /\ response \in {<<"Hello!">>, <<"I'll work on that.">>,
                             <<"Let me think about that.">>, <<"I'm listening.">>}

C15_Witness ==
    /\ pc = "resp_if"
    /\ llm.kind = "timeout"
    /\ transcription = <<"this", "?">>
    /\ response = <<"Hello!">>


(***************************************************************************)
(* Claims about mute, shutdown, bad command lines and errors in the loop,  *)
(* checked under SpecCmd and SpecCmdFair.                                  *)
(***************************************************************************)
\* a step of the main thread
MainStep == pc' # pc

\* the main thread is at the test of the mute flag (line 420)
AtMuteCheck == pc \in {"cto_if", "cto_stamp"}

\* C16: an iteration that finds the mute flag set reads no chunk and leaves
\* the segmenter state as it is, and after a mute command has set the flag
\* at most one more chunk is read while the flag stays set.
C16_MutedLoopReadsNothing ==
    /\ [](mutedReads <= 1)
    /\ [][(is_muted /\ AtMuteCheck /\ MainStep) =>
            /\ pc' \in {"while", "cto_clear"}
            /\ calls' = << >>
            /\ UNCHANGED <<recording, frames, silence_start, speech_detected>>]_vars

C16_Witness ==
    /\ is_muted
    /\ mutedReads = 1
    /\ recording
    /\ pc = "cto_if"
    /\ cmd = "mute"

\* positions of the main thread from which the loop is left or was never entered
AtLoopEdge == pc \in {"start", "while", "bye_stop", "cleanup", "done"}

\* C17: with the stop flag set, a step inside an iteration is the step it
\* would be without the flag (the operation in progress completes), the
\* next test of the flag leaves the loop, shutdown_complete is emitted only
\* by the one step from cleanup to the end of the thread, and once the flag
\* is set that step is eventually taken.
C17_CooperativeShutdown ==
    /\ [][(should_stop /\ ~AtLoopEdge /\ MainStep) => pc' \notin {"cleanup", "done"}]_vars
    /\ [][(should_stop /\ pc = "while" /\ MainStep) => pc' = "cleanup"]_vars
    /\ [][(\E i \in 1..Len(emitted') : emitted'[i].type = "shutdown_complete")
            => (pc = "cleanup" /\ pc' = "done" /\ Len(emitted') = 1)]_vars
    /\ [][pc = "done" => pc' = "done"]_vars
    /\ [][(pc' = "done" /\ pc # "done") => emitted' = <<Ev("shutdown_complete", << >>)>>]_vars
    /\ (should_stop ~> (pc = "done"))

C17_Witness ==
    /\ should_stop
    /\ cmd = "shutdown"
    /\ ~IsExit(transcription)
    /\ response # << >>
    /\ pc = "done"
    /\ emitted = <<Ev("shutdown_complete", << >>)>>

\* C18: a line that does not parse, that is no object or that names no known
\* command makes the listener send exactly one error event and go on to its
\* next iteration; the mute flag, the stop flag, the voice, the history and
\* the activity timestamp are left as they are.
C18_BadLineOnlyReported ==
    [][\A kind \in BadLines : CBadLine(kind) =>
          /\ Len(emitted') = 1
          /\ emitted'[1].type = "error"
          /\ cpc' = "cwhile"
          /\ UNCHANGED <<is_muted, should_stop, current_voice,
                         conversation_turns, last_activity_time>>]_vars

C18_Witness ==
    /\ cmd = "unknown"
    /\ cpc = "idle"
    /\ is_muted
    /\ current_voice = "bm_george"
    /\ conversation_turns # << >>
    /\ ~should_stop

\* a step of the main thread that sends an error event
MainError == MainStep /\ \E i \in 1..Len(emitted') : emitted'[i].type = "error"

\* C19: the loop is left only by the test of a set stop flag or by the break
\* after a goodbye/exit utterance; the flag is set only by the shutdown
\* command or by that utterance; an exception of the device read or of the
\* transcription sends an error event and leads to the next iteration, and
\* no other error of a turn leaves the loop.
C19_LoopSurvivesErrors ==
    /\ [][(pc' = "cleanup" /\ pc \notin {"cleanup", "start"})
            => ((pc = "while" /\ should_stop) \/ pc = "bye_stop")]_vars
    /\ [][(should_stop' /\ ~should_stop)
            => ((cpc = "idle" /\ cmd' = "shutdown") \/ (pc = "bye_stop" /\ IsExit(transcription)))]_vars
    /\ [][(pc \in {"read", "transcribe"} /\ MainError) => pc' = "while"]_vars
    /\ [][(pc \notin {"start", "bye_speak"} /\ MainError)
            => (pc' \in {"while", "resp_if"} /\ should_stop' = should_stop)]_vars

C19_Witness ==
    /\ pc = "sil_if"
    /\ Len(frames) = MinSpeechFrames + 3
    /\ transcription = << >>
    /\ ~should_stop

\* C20: when the playback of a turn's response fails, the step sends error
\* and then listening and the loop goes on; jarvis_speaking was sent when the
\* response was accepted and conversation_turn by the step before the
\* playback, and the assistant record is the last of the history.
C20_TtsFailureKeepsTurn ==
    /\ [][(pc = "speak" /\ pc' = "while") =>
            /\ emitted' = <<Ev("error", << >>), Ev("listening", << >>)>>
            /\ conversation_turns' # << >>
            /\ conversation_turns'[Len(conversation_turns')] = Rec("assistant", response)
            /\ ~should_stop']_vars
    /\ [][(pc' = "speak" /\ MainStep) =>
            /\ pc = "turn_evt"
            /\ emitted' = <<Ev("conversation_turn", transcription \o response)>>]_vars
    /\ [][(pc' = "turn_evt" /\ MainStep) => pc = "addA_stamp"]_vars
    /\ [][(pc' = "addA_append" /\ MainStep) =>
            /\ pc = "resp_if"
            /\ emitted' = <<Ev("jarvis_speaking", response)>>]_vars

C20_Witness ==
    /\ pc = "while"
    /\ emitted = <<Ev("error", << >>), Ev("listening", << >>)>>
    /\ conversation_turns # << >>
    /\ conversation_turns[Len(conversation_turns)] = Rec("assistant", response)
    /\ ~recording


(***************************************************************************)
(* Claims about the start, checked under SpecCmd.                          *)
(***************************************************************************)
\* the last step sent an event of one of the types
Sent(types) == \E i \in 1..Len(emitted) : emitted[i].type \in types

\* C21: a start that fails sends an error event and leads to cleanup
\* without starting the listener thread; while the listener thread is not
\* started the main loop is not entered and neither ready nor listening is
\* sent, and a thread that was not started by the start is never started.
C21_FailedStartAborts ==
    /\ [](cpc = "unstarted" =>
            (pc \in {"start", "cleanup", "done"} /\ ~Sent({"ready", "listening"})))
    /\ [][(pc = "start" /\ MainStep /\ pc' # "ready") =>
            /\ pc' = "cleanup"
            /\ cpc' = "unstarted"
            /\ emitted'[Len(emitted')].type = "error"
            /\ \A i \in 1..Len(emitted') :
                   emitted'[i].type \notin {"ready", "listening", "audio_stream_started"}]_vars
    /\ [][(pc # "start" /\ cpc = "unstarted") => cpc' = "unstarted"]_vars

C21_Witness ==
    /\ pc = "done"
    /\ cpc = "unstarted"
    /\ emitted = <<Ev("shutdown_complete", << >>)>>
    /\ conversation_turns = << >>


(***************************************************************************)
(* Claims about the announcement text, checked under SpecAnn.              *)
(***************************************************************************)
\* sub occurs in text as a run of consecutive tokens
Occurs(sub, text) ==
    \E i \in 0..(Len(text) - Len(sub)) : SubSeq(text, i + 1, i + Len(sub)) = sub

\* an announce command has been read and its announcement built
Announced == cpc = "ann_append" /\ cmd = "announce"

\* items read in full: ", " between the items and ", and " before the last of two or more
InFull(items) ==
    [k \in 1..(2 * Len(items) - 1) |->
        IF k % 2 = 1 THEN items[(k + 1) \div 2]
        ELSE IF k = 2 * Len(items) - 2 THEN ", and " ELSE ", "]

\* C22 as stated: four changes a, b, c, d are read "a, b, and 2 more changes".
C22_TwoReadTwoCounted ==
    (Announced /\ command.changes = <<"a", "b", "c", "d">>) =>
        Occurs(<<"a", ", ", "b", ", and ", "2", " more change", "s">>, announcement)

\* C22 amended: four changes a, b, c, d are read "a, b, and c, and 1 more change".
C22_ThreeReadOneCounted ==
    (Announced /\ command.changes = <<"a", "b", "c", "d">>) =>
        /\ Occurs(<<"a", ", ", "b", ", and ", "c", ", and ", "1", " more change">>,
                  announcement)
        /\ ~Occurs(<<" more change", "s">>, announcement)
        /\ ~Occurs(<<"d">>, announcement)

C22_Witness ==
    /\ Announced
    /\ command.changes = <<"a", "b", "c", "d">>
    /\ command.notes = << >>
    /\ announcement = <<"done", " ", "a", ", ", "b", ", and ", "c", ", and ", "1",
                        " more change">>

\* C23: changes of at most 3 items, notes of at most 4 and risks of at most 2
\* are read in full and in order, with ", and " before the last of two or
\* more items and no "and" for a single item.
C23_ShortListsReadInFull ==
    Announced =>
        /\ (command.changes # << >> /\ Len(command.changes) <= 3)
              => Occurs(InFull(command.changes), announcement)
        /\ (command.notes # << >> /\ Len(command.notes) <= 4)
              => Occurs(InFull(command.notes), announcement)
        /\ (command.risks # << >> /\ Len(command.risks) <= 2)
              => Occurs(<<". However, ">> \o InFull(command.risks), announcement)
        /\ (Len(command.changes) <= 1 /\ Len(command.notes) <= 1 /\ Len(command.risks) <= 1)
              => ~Occurs(<<", and ">>, announcement)

C23_Witness ==
    /\ Announced
    /\ command.changes = <<"a", "b">>
    /\ command.notes = <<"Na", "Nb", "Nc", "Nd">>
    /\ command.risks = <<"ra">>
    /\ announcement = <<"done", " ", "a", ", and ", "b", ". ",
                        "Na", ", ", "Nb", ", ", "Nc", ", and ", "Nd",
                        ". However, ", "ra">>


\* the first three items of a longer list, read like a list of three
FirstThree(items) == InFull(SubSeq(items, 1, 3))

\* no item of the list after the first n is read
NoneReadAfter(items, n) ==
    \A i \in (n + 1)..Len(items) : ~Occurs(<<items[i]>>, announcement)

\* more than 3 changes: the first three, then the count of the others
ChangesTruncated ==
    Len(command.changes) > 3 =>
        /\ Occurs(FirstThree(command.changes)
                  \o <<", and ", ToString(Len(command.changes) - 3), " more change">>,
                  announcement)
        /\ NoneReadAfter(command.changes, 3)

\* more than 4 notes: the first three, then the count of the others
NotesTruncated ==
    Len(command.notes) > 4 =>
        /\ Occurs(FirstThree(command.notes)
                  \o <<". There are ", ToString(Len(command.notes) - 3)>>,
                  announcement)
        /\ NoneReadAfter(command.notes, 3)

\* C24 as stated: a list of changes, notes or risks longer than its limit
\* is read as its first three items followed by the count of the others.
C24_EveryLongListTruncated ==
    Announced =>
        /\ ChangesTruncated
        /\ NotesTruncated
        /\ Len(command.risks) > 2 =>
              /\ Occurs(FirstThree(command.risks), announcement)
              /\ Occurs(<<ToString(Len(command.risks) - 3)>>, announcement)

\* C24 amended: more than 3 changes and more than 4 notes are read as their
\* first three items followed by the count of the others (length minus 3);
\* of more than 2 risks none is read, only their number is stated.
C24_LongListsTruncatedRisksCounted ==
    Announced =>
        /\ ChangesTruncated
        /\ NotesTruncated
        /\ Len(command.risks) > 2 =>
              /\ Occurs(<<". Note: ", ToString(Len(command.risks)),
                          " potential risks to be aware of">>, announcement)
              /\ NoneReadAfter(command.risks, 0)

C24_Witness ==
    /\ Announced
    /\ command.changes = <<"a", "b", "c", "d", "e">>
    /\ command.notes = <<"na", "nb", "nc", "nd", "ne", "nf">>
    /\ command.risks = <<"ra", "rb", "rc">>
    /\ command.next_questions = << >>
    /\ announcement = <<"done", " ", "a", ", ", "b", ", and ", "c", ", and ", "2",
                        " more change", "s", " ", "na", ", ", "nb", ", and ", "nc",
                        ". There are ", "3",
                        " more important things that need further investigation",
                        ". Note: ", "3", " potential risks to be aware of">>


(***************************************************************************)
(* Claim about the energy of a chunk, checked under SpecEnergy.            *)
(***************************************************************************)
\* sum of the absolute values of the samples from sample i on, in the integers
RECURSIVE SumOfMagnitudes(_, _)
SumOfMagnitudes(chunk, i) ==
    IF i > Len(chunk) THEN 0
    ELSE (IF chunk[i] < 0 THEN 0 - chunk[i] ELSE chunk[i]) + SumOfMagnitudes(chunk, i + 1)

\* C25: the energy of the chunk just read is not negative and is the mean
\* of the absolute values of its samples, and the chunk was classified as
\* speech exactly when that mean exceeds the threshold.
C25_EnergyIsMeanMagnitude ==
    (calls # << >> /\ calls[1] = "read") =>
        LET energy == calculate_energy(audio_chunk)
            total  == SumOfMagnitudes(audio_chunk, 1)
        IN  /\ energy.sum >= 0
            /\ energy.sum = total
            /\ (calls[2] = "speech") <=> (total > SILENCE_THRESHOLD * Len(audio_chunk))

\* C26: a finalized turn whose transcription is the empty string is dropped:
\* the step emits no event at all, leaves the history and last_activity_time
\* as they were, resets the accumulator to idle and goes back to the head of
\* the loop; the LLM endpoint is only ever called for a non-empty transcription.
C26_EmptyTranscriptDropped ==
    /\ [][(pc = "transcribe" /\ calls' = <<"transcribe">> /\ transcription' = << >>) =>
            /\ emitted' = << >>
            /\ conversation_turns' = conversation_turns
            /\ last_activity_time' = last_activity_time
            /\ pc' = "while"
            /\ ~recording' /\ frames' = << >>
            /\ silence_start' = None /\ ~speech_detected']_vars
    /\ [][calls' = <<"llm">> => transcription # << >>]_vars

\* an empty transcription was dropped while the history held earlier turns
C26_Witness ==
    /\ pc = "while" /\ calls = <<"transcribe">> /\ transcription = << >>
    /\ emitted = << >> /\ ~recording /\ conversation_turns # << >>

\* number of places of a list of records that hold the record rec
Occurrences(rec, list) == Cardinality({i \in 1..Len(list) : list[i] = rec})

\* C27: the list sent to the LLM endpoint starts with the system prompt, ends
\* with the new user message and carries at most ContextWindow context
\* records in between, all of them from before this turn: the new utterance
\* is in the list once more than in the records of the earlier turns, so it
\* occurs in the list at most as often as it was appended to the history.
C27_UtteranceSentOnce ==
    [][calls' = <<"llm">> =>
          LET user == Rec("user", transcription)
          IN  /\ messages'[1] = Rec("system", <<"system_prompt">>)
              /\ messages'[Len(messages')] = user
              /\ Len(messages') <= ContextWindow + 2
              /\ Occurrences(user, messages') <= Occurrences(user, added)]_vars

\* lines 447-448 decided that the silence has lasted long enough
Finalizes == pc = "sil_if" /\ pc' # pc /\ (pc' = "transcribe" \/ ~recording')

\* lines 447-448 decided that the silence has not lasted long enough yet
KeepsListening == pc = "sil_if" /\ pc' = "while" /\ recording'

\* C28: the silence that ends a turn is the configured silence_timeout: the
\* accumulated turn is finalized by the first silence check that finds at
\* least silence_timeout of silence, and by no earlier one.
C28_ConfiguredSilenceFinalizes ==
    /\ [][Finalizes => now' - silence_start >= silence_timeout]_vars
    /\ [][KeepsListening => now' - silence_start < silence_timeout]_vars

\* the tokens of a list of utterances, one after the other
RECURSIVE Flatten(_, _)
Flatten(list, i) == IF i > Len(list) THEN << >> ELSE list[i] \o Flatten(list, i + 1)

NoSpace(text) == SelectSeq(text, LAMBDA tok : ~IsSpace(tok))

IsPrefixOf(a, b) == Len(a) <= Len(b) /\ a = SubSeq(b, 1, Len(a))

\* C29: in the streaming variant the utterances of a turn do not overlap and
\* keep the order of arrival: synthesis of an utterance begins only when the
\* device plays nothing, what has been played is, spaces aside, the beginning
\* of the text streamed so far, and an utterance without a sentence end is
\* the last one and is played only after the stream has ended.
C29_SentencesInOrder ==
    /\ spc \in {"chunk_create", "chunk_play", "rest_create", "rest_play"} => playing = << >>
    /\ IsPrefixOf(NoSpace(Flatten(played, 1)), NoSpace(full_response))
    /\ \A i \in 1..Len(played) :
           ~EndsSentence(played[i]) => i = Len(played) /\ spc \in {"rest_wait", "add_turn"}

\* two sentences and an unterminated remainder were played, in this order
C29_Witness ==
    /\ spc = "add_turn"
    /\ played = <<<<"a", ".">>, <<"?">>, <<"b">>>>

\* the record of the last announcement is in the history
AnnouncementInHistory ==
    /\ announcement # << >>
    /\ \E i \in 1..Len(conversation_turns) :
           conversation_turns[i] = Rec("assistant", announcement)

\* C30: the automatic clear (line 186) removes the record of an announcement
\* only when more than context_timeout has passed since the announcement.
\* While the command thread is between the append of the record (line 175)
\* and the stamp that follows it (line 180), last_activity_time is the time
\* of the announcement (line 524) or of a later turn of the main loop.
C30_AnnounceKeepsContext ==
    [][(/\ pc = "cto_clear" /\ pc' = "cto_stamp"
        /\ cmd = "announce" /\ cpc \in {"ann_len", "ann_pop", "ann_stamp"}
        /\ AnnouncementInHistory)
          => now - last_activity_time > context_timeout]_vars

\* C31: at most one playback is in progress: speak_text of an announce
\* (line 611) starts its playback only when the main loop is not inside the
\* playback of a response (between sd.play and the return of sd.wait).
C31_OnePlaybackAtATime ==
    [][(cpc = "ann_speak" /\ cpc' = "ann_evt" /\ calls' = <<"tts">>)
          => pc # "playing"]_vars

\* C32: no record of a turn that began before a reset_context enters the
\* history after it: when the assistant record of a turn is appended (line
\* 473), the user record of the same turn (line 466) is among the records
\* appended since the history was last cleared.
C32_NoRecordAcrossReset ==
    [][(pc = "addA_append" /\ pc' = "addA_len")
          => \E i \in 1..Len(added) : added[i] = Rec("user", transcription)]_vars

\* the positions of a turn after its transcription event (lines 465-483)
InTurn ==
    {"addU_append", "addU_len", "addU_pop", "addU_stamp", "gen", "resp_if",
     "addA_append", "addA_len", "addA_pop", "addA_stamp", "turn_evt", "speak", "playing"}

\* the step sends an event of one of the types
Sends(types) == \E i \in 1..Len(emitted') : emitted'[i].type \in types

\* C33: the events of a turn that is not an exit come in the order
\* user_speaking, transcription, instruction_detected, jarvis_speaking,
\* conversation_turn, listening: the main loop sends each of them at its own
\* place of the turn and passes these places in this order, user_speaking is
\* sent only when no turn is being recorded, and a turn whose transcription
\* was sent is left only by a step that sends listening.
C33_TurnEventOrder ==
    /\ [][(MainStep /\ Sends({"user_speaking"})) => pc = "read" /\ ~recording]_vars
    /\ [][(MainStep /\ Sends({"transcription"})) => pc = "transcribe"]_vars
    /\ [][(MainStep /\ Sends({"instruction_detected"})) => pc = "gen" /\ pc' = "resp_if"]_vars
    /\ [][(MainStep /\ Sends({"jarvis_speaking"}))
            => \/ pc = "resp_if" /\ pc' = "addA_append"
               \/ pc = "transcribe" /\ pc' = "bye_speak"]_vars
    /\ [][(MainStep /\ Sends({"conversation_turn"})) => pc = "turn_evt" /\ pc' = "speak"]_vars
    /\ [][(MainStep /\ pc \in InTurn /\ pc' \notin InTurn) => Sends({"listening"})]_vars

\* C34: chunks accumulated before a mute are not combined with chunks read
\* after the unmute: a turn whose accumulator held chunks during a muted
\* iteration is not handed to the transcriber, be it on the strength of the
\* silence measured across the muted time or of later silence.
C34_MuteSplitsTurn ==
    [][(pc = "sil_if" /\ pc' = "transcribe") => ~mutedInTurn]_vars

\* C35: on a clock driven by the chunk reads, every turn whose silence has
\* lasted SILENCE_DURATION holds more than MinSpeechFrames chunks, the
\* trailing silence chunks included, so it is handed to the transcriber and
\* never discarded as too short.
C35_NeverTooShort ==
    [][Finalizes => Len(frames) > MinSpeechFrames /\ pc' = "transcribe"]_vars

\* the text holds goodbye or exit in any letter case, also inside a word
SaysExit(text) ==
    \E i \in 1..Len(text) : text[i] \in {"goodbye", "Goodbye", "exit", "EXIT", "exited"}

\* C36: a transcription that says goodbye or exit is answered by the events
\* transcription and jarvis_speaking 'Goodbye!' and nothing else: the reply
\* is spoken without a call of the LLM, the history stays as it is, no
\* conversation_turn is sent, the stop flag is set and the loop is left, and
\* the thread then ends with shutdown_complete.
C36_GoodbyeEndsService ==
    /\ [][(pc = "transcribe" /\ calls' = <<"transcribe">> /\ SaysExit(transcription'))
            => /\ emitted' = <<Ev("transcription", transcription'),
                               Ev("jarvis_speaking", <<"Goodbye!">>)>>
               /\ pc' = "bye_speak"]_vars
    /\ [][(pc \in {"bye_speak", "bye_stop"} /\ MainStep)
            => /\ pc' = (IF pc = "bye_speak" THEN "bye_stop" ELSE "cleanup")
               /\ calls' \in {<< >>, <<"tts">>}
               /\ ~Sends({"conversation_turn", "transcription", "jarvis_speaking"})
               /\ conversation_turns' = conversation_turns
               /\ (pc = "bye_stop" => should_stop')]_vars
    /\ (pc = "bye_speak") ~> (pc = "done")
    /\ [][(MainStep /\ pc' = "done") => emitted' = <<Ev("shutdown_complete", << >>)>>]_vars

\* the service has ended after a transcription with exit inside a word
C36_Witness ==
    /\ pc = "done"
    /\ transcription = <<"exited">>
    /\ response = <<"Goodbye!">>
    /\ should_stop
    /\ cmd # "shutdown"
    /\ conversation_turns = << >>

\* C37: the answer parsed from a reply, and with it the response that is
\* spoken, holds no [ANSWER] or [INSTRUCTION] marker in any letter case.
C37_NoMarkerInAnswer ==
    (Replied /\ ReplyContent # << >>) =>
        /\ MarkerFree(parsed.answer)
        /\ MarkerFree(response)

\* C38: a successful start sends ready exactly once: the one step that sends
\* it sends a single ready event, ahead of the first listening event, and
\* until then the command thread has sent no event.
C38_ReadyOnce ==
    /\ [][Sends({"ready"}) =>
            /\ pc = "ready"
            /\ Cardinality({i \in 1..Len(emitted') : emitted'[i].type = "ready"}) = 1
            /\ emitted'[1].type = "ready"]_vars
    /\ [][Sends({"listening"}) => pc \notin {"start"}]_vars
    /\ [][(pc = "ready" /\ ~MainStep) => emitted' = << >>]_vars

\* C39: whenever the main loop is at the top of an iteration the segmenter is
\* consistent: recording holds exactly when frames is non-empty and exactly
\* when speech_detected holds, silence_start is set only while recording, and
\* the first accumulated frame is a speech frame.
C39_SegmenterConsistent ==
    pc = "while" =>
        /\ recording <=> frames # << >>
        /\ recording <=> speech_detected
        /\ silence_start # None => recording
        /\ frames # << >> => frames[1] = "speech"

\* an iteration boundary inside a turn: speech, then silence with the timer running
C39_Witness ==
    /\ pc = "while"
    /\ recording
    /\ speech_detected
    /\ Len(frames) >= 3
    /\ frames[1] = "speech"
    /\ frames[Len(frames)] = "silence"
    /\ silence_start # None

====
